---- MODULE Spec2Model ----
(***************************************************************************)
(* Model of the 3DCP wall package cost estimator (src/app.py).             *)
(*                                                                         *)
(* Numbers.  The program computes with Python floats.  The model computes  *)
(* with exact rationals: a decimal literal of the source (0.3048, 11.811)  *)
(* is the rational it denotes, and + - * / are exact.  A rational is a     *)
(* record [neg, n, d] of a sign and two naturals; a natural is a sequence  *)
(* of digits in radix Base, least significant first, so that values do not *)
(* overflow the checker's machine integers.  A division by zero, which     *)
(* raises ZeroDivisionError in Python, yields the value Bad (d = 0), and   *)
(* every operation on Bad yields Bad.                                      *)
(***************************************************************************)
EXTENDS Integers, Sequences, FiniteSets, Bags, TLC

\* ---------------------------------------------------------------------
\* Naturals of any size: sequences of digits, least significant first,
\* no leading (high-order) zero digit; zero is the empty sequence.
\* ---------------------------------------------------------------------
Base == 10 * 10 * 10

RECURSIVE BigOf(_)
BigOf(k) == IF k = 0 THEN << >> ELSE <<k % Base>> \o BigOf(k \div Base)

\* a without its leading (high-order) zero digits
BigTrim(a) ==
    IF \A i \in 1 .. Len(a) : a[i] = 0 THEN << >>
    ELSE SubSeq(a, 1, CHOOSE i \in 1 .. Len(a) :
                          a[i] # 0 /\ \A j \in i + 1 .. Len(a) : a[j] = 0)

Digit(a, i) == IF i <= Len(a) THEN a[i] ELSE 0

\* the function f on 1 .. n as the sequence of its n values
BigDigits(f) == f \o << >>

\* The digit-wise operations are written without recursion, so that the
\* depth of evaluation does not grow with the number of digits: the carry
\* into a position is found by looking at the lower positions.

\* s[k] is the sum of the digits of two numbers at position k.  Position k
\* receives a carry when the nearest lower position that does not just pass
\* a carry on, t below k, produces one.
BigCarryIn(s, k) ==
    LET t == CHOOSE t \in 1 .. k :
                 /\ t = k \/ s[k - t] # Base - 1
                 /\ \A i \in k - t + 1 .. k - 1 : s[i] = Base - 1
    IN  t < k /\ s[k - t] >= Base

\* the number whose digit sums are s; the top position carries nothing out
BigAddFrom(s) ==
    BigTrim(BigDigits([k \in 1 .. Len(s) |->
                          (s[k] + IF BigCarryIn(s, k) THEN 1 ELSE 0) % Base]))

BigAdd(a, b) ==
    IF a = << >> THEN b
    ELSE IF b = << >> THEN a
    ELSE BigAddFrom(BigDigits(
             [k \in 1 .. (IF Len(a) > Len(b) THEN Len(a) ELSE Len(b)) + 1 |->
                 Digit(a, k) + Digit(b, k)]))

\* d[k] is the difference of the digits of two numbers at position k.
\* Position k lends when the nearest lower position that does not just hand
\* a borrow on, t below k, needs one.
BigBorrowIn(d, k) ==
    LET t == CHOOSE t \in 1 .. k :
                 /\ t = k \/ d[k - t] # 0
                 /\ \A i \in k - t + 1 .. k - 1 : d[i] = 0
    IN  t < k /\ d[k - t] < 0

BigSubFrom(d) ==
    BigTrim(BigDigits([k \in 1 .. Len(d) |->
                          (d[k] - IF BigBorrowIn(d, k) THEN 1 ELSE 0) % Base]))

\* a - b for a >= b
BigSub(a, b) ==
    IF b = << >> THEN a
    ELSE BigSubFrom(BigDigits([k \in 1 .. Len(a) |-> a[k] - Digit(b, k)]))

\* -1, 0, 1 as a < b, a = b, a > b; for equal lengths, i is the highest
\* position where the two differ
BigCmpFrom(a, b, i) == IF a[i] < b[i] THEN -1 ELSE 1

BigCmp(a, b) ==
    IF Len(a) < Len(b) THEN -1
    ELSE IF Len(a) > Len(b) THEN 1
    ELSE IF a = b THEN 0
    ELSE BigCmpFrom(a, b, CHOOSE i \in 1 .. Len(a) :
                              a[i] # b[i] /\ \A j \in i + 1 .. Len(a) : a[j] = b[j])

\* the sum of the naturals f[i]: the size of the bag that holds f[i] copies
\* of each i
BigSum(f) == BagCardinality([i \in {j \in DOMAIN f : f[j] > 0} |-> f[i]])

\* column k of the long multiplication of a by b: the sum of the products
\* a[i] * b[k + 1 - i]
BigColumn(a, b, k) ==
    BigSum([i \in (IF k + 1 - Len(b) > 1 THEN k + 1 - Len(b) ELSE 1)
                  .. (IF k < Len(a) THEN k ELSE Len(a)) |->
               a[i] * b[k + 1 - i]])

\* the digit of weight unit (1, Base, Base * Base) of column k; a column
\* is less than Base * Base * Base
BigColumnDigit(cols, k, unit) ==
    IF k < 1 \/ k > Len(cols) THEN 0 ELSE (cols[k] \div unit) % Base

\* the columns as a number: their digits of weight 1 and Base added up,
\* low, then the digits of weight Base * Base added to that
BigMulHigh(cols, low) ==
    BigAddFrom(BigDigits([k \in 1 .. Len(cols) + 2 |->
                             Digit(low, k) + BigColumnDigit(cols, k - 2, Base * Base)]))

BigMulFrom(cols) ==
    BigMulHigh(cols,
               BigAddFrom(BigDigits([k \in 1 .. Len(cols) + 2 |->
                                        BigColumnDigit(cols, k, 1)
                                        + BigColumnDigit(cols, k - 1, Base)])))

BigMul(a, b) ==
    IF a = << >> \/ b = << >> THEN << >>
    ELSE IF a = <<1>> THEN b
    ELSE IF b = <<1>> THEN a
    ELSE BigMulFrom(BigDigits([k \in 1 .. Len(a) + Len(b) - 1 |-> BigColumn(a, b, k)]))

\* ---------------------------------------------------------------------
\* Rationals
\* ---------------------------------------------------------------------
Bad == [neg |-> FALSE, n |-> << >>, d |-> << >>]
IsBad(x) == x.d = << >>

\* drop the digits that are zero in both numerator and denominator
RECURSIVE RNorm(_, _, _)
RNorm(neg, n, d) ==
    IF n = << >> THEN [neg |-> FALSE, n |-> << >>, d |-> <<1>>]
    ELSE IF n[1] = 0 /\ d[1] = 0 THEN RNorm(neg, Tail(n), Tail(d))
    ELSE [neg |-> neg, n |-> n, d |-> d]

RECURSIVE Gcd(_, _)
Gcd(a, b) == IF b = 0 THEN a ELSE Gcd(b, a % b)

\* the rational k / m of two integers, m > 0, in lowest terms
Rat(k, m) ==
    LET a == IF k < 0 THEN -k ELSE k
        g == Gcd(a, m)
    IN  RNorm(k < 0, BigOf(a \div g), BigOf(m \div g))
RInt(k) == Rat(k, 1)

RNeg(x) == IF IsBad(x) \/ x.n = << >> THEN x ELSE [x EXCEPT !.neg = ~x.neg]

RMul(x, y) ==
    IF IsBad(x) \/ IsBad(y) THEN Bad
    ELSE RNorm(x.neg # y.neg, BigMul(x.n, y.n), BigMul(x.d, y.d))

\* Python's a / b: ZeroDivisionError when b is zero
RDiv(x, y) ==
    IF IsBad(x) \/ IsBad(y) \/ y.n = << >> THEN Bad
    ELSE RNorm(x.neg # y.neg, BigMul(x.n, y.d), BigMul(x.d, y.n))

\* p / d + q / d with the signs nx and ny; ge: p >= q
RDiff(nx, ny, p, q, d, ge) ==
    RNorm(IF ge THEN nx ELSE ny,
          BigSub(IF ge THEN p ELSE q, IF ge THEN q ELSE p), d)

RSum(nx, ny, p, q, d) ==
    IF nx = ny THEN RNorm(nx, BigAdd(p, q), d)
    ELSE RDiff(nx, ny, p, q, d, BigCmp(p, q) >= 0)

RAdd(x, y) ==
    IF IsBad(x) \/ IsBad(y) THEN Bad
    ELSE IF x.d = y.d THEN RSum(x.neg, y.neg, x.n, y.n, x.d)
    ELSE RSum(x.neg, y.neg, BigMul(x.n, y.d), BigMul(y.n, x.d), BigMul(x.d, y.d))

RSub(x, y) == RAdd(x, RNeg(y))

\* -1, 0, 1 as x < y, x = y, x > y (neither is Bad)
RCmpAbs(x, y) == BigCmp(BigMul(x.n, y.d), BigMul(y.n, x.d))

RCmp(x, y) ==
    IF x.neg # y.neg THEN (IF x.neg THEN -1 ELSE 1)
    ELSE (IF x.neg THEN -1 ELSE 1) * RCmpAbs(x, y)

REq(x, y) == ~IsBad(x) /\ ~IsBad(y) /\ RCmp(x, y) = 0
RLe(x, y) == ~IsBad(x) /\ ~IsBad(y) /\ RCmp(x, y) <= 0
RLt(x, y) == ~IsBad(x) /\ ~IsBad(y) /\ RCmp(x, y) < 0
RIsZero(x) == ~IsBad(x) /\ x.n = << >>

\* Python's max(a, b) with a first: b only when b > a
RMax(x, y) == IF IsBad(x) \/ IsBad(y) THEN Bad ELSE IF RLt(x, y) THEN y ELSE x

\* the integer part of x >= 0, one decimal digit at a time: unit is a power
\* of ten and acc the part found so far
RECURSIVE RFloorFrom(_, _, _)
RFloorFrom(x, acc, unit) ==
    IF unit = 0 THEN acc
    ELSE LET dg == CHOOSE d \in 0 .. 9 :
                      /\ RLe(RInt(acc + d * unit), x)
                      /\ d = 9 \/ ~RLe(RInt(acc + (d + 1) * unit), x)
         IN  RFloorFrom(x, acc + dg * unit, unit \div 10)

\* the greatest power of ten that is at most x (1 for x < 10)
RECURSIVE TopUnit(_, _)
TopUnit(x, unit) == IF RLt(x, RInt(10 * unit)) THEN unit ELSE TopUnit(x, 10 * unit)

\* int(x) for x >= 0
RFloor(x) == RFloorFrom(x, 0, TopUnit(x, 1))

\* math.ceil(x) for x >= 0, from its integer part fl
RCeilFrom(x, fl) == IF REq(x, RInt(fl)) THEN fl ELSE fl + 1
RCeil(x) == RCeilFrom(x, RFloor(x))

\* ---------------------------------------------------------------------
\* 1. CONSTANTS & CONVERSIONS
\* ---------------------------------------------------------------------
SQ_M_TO_SQ_FT == Rat(107639104, 10000000)
TONNE_TO_TON == Rat(110231, 100000)
KG_M3_TO_LBS_FT3 == Rat(6242796, 100000000)
MM_TO_FT == Rat(328084, 100000000)
MM_TO_INCH == Rat(393701, 10000000)
M_TO_FT == Rat(328084, 100000)
FT_TO_M == Rat(3048, 10000)
SHIFT_HOURS == 8

\* ---------------------------------------------------------------------
\* 4. THE PHYSICS ENGINE & AUDITOR: calculate_costs(p, is_metric), stage
\* by stage.  p is the input record; its numeric fields are rationals.
\* ---------------------------------------------------------------------
WarnEfficiency == "Efficiency > 90% is extremely aggressive for construction."
WarnSlump == "High Speed + High Layer Height may cause slump/collapse."
WarnFlow == "Flow Rate exceeds typical pump capacity (20-30 L/min)."

safe_eff_Unclamped(p) == p.efficiency

safe_eff(p) == RMax(Rat(1, 100), p.efficiency)

EarlyWarnings_FromNinety(p) ==
    (IF RLe(Rat(90, 100), safe_eff(p)) THEN <<WarnEfficiency>> ELSE << >>)
    \o (IF RLt(RInt(300), p.print_speed_mm_s) /\ RLt(RInt(25), p.layer_h_mm)
        THEN <<WarnSlump>> ELSE << >>)

EarlyWarnings(p) ==
    (IF RLt(Rat(90, 100), safe_eff(p)) THEN <<WarnEfficiency>> ELSE << >>)
    \o (IF RLt(RInt(300), p.print_speed_mm_s) /\ RLt(RInt(25), p.layer_h_mm)
        THEN <<WarnSlump>> ELSE << >>)

\* A. Geometry
total_layers(p, layer_h_mm_safe) ==
    LET wall_height_mm == RMul(p.wall_height_ft, Rat(3048, 10))
    IN  RDiv(wall_height_mm, layer_h_mm_safe)

total_path_length_ft_NoPasses(p, linear_wall_ft, layers) ==
    RMul(linear_wall_ft, layers)

total_path_length_ft(p, linear_wall_ft, layers) ==
    RMul(RMul(linear_wall_ft, layers), p.passes_per_layer)

Geometry(p) ==
    LET linear_wall_ft == RMul(p.sq_ft_home, p.wall_density)
        wall_sq_ft == RMul(linear_wall_ft, p.wall_height_ft)
        layer_h_mm_safe == RMax(Rat(5, 10), p.layer_h_mm)
        bead_w_mm_safe == RMax(RInt(1), p.bead_w_mm)
        layers == total_layers(p, layer_h_mm_safe)
    IN  [linear_wall_ft |-> linear_wall_ft,
         wall_sq_ft |-> wall_sq_ft,
         layer_h_mm_safe |-> layer_h_mm_safe,
         bead_w_mm_safe |-> bead_w_mm_safe,
         total_layers |-> layers,
         total_path_length_ft |-> total_path_length_ft(p, linear_wall_ft, layers)]

project_months_of_NextMonth(total_project_days) ==
    IF IsBad(total_project_days) THEN 1
    ELSE IF RLe(total_project_days, RInt(0)) THEN 1
    ELSE RFloor(RDiv(total_project_days, RInt(30))) + 1

\* project_months = max(1, int(math.ceil(total_project_days / 30.0)))
project_months_of(total_project_days) ==
    IF IsBad(total_project_days) THEN 1
    ELSE IF RLe(total_project_days, RInt(0)) THEN 1
    ELSE LET c == RCeil(RDiv(total_project_days, RInt(30)))
         IN  IF 1 >= c THEN 1 ELSE c

\* B. Time (speed + efficiency)
Time(p, geo) ==
    LET avg_speed_mm_s == RMax(RInt(1), p.print_speed_mm_s)
        speed_ft_hr == RMul(avg_speed_mm_s, Rat(11811, 1000))
        theoretical_time_hr == RDiv(geo.total_path_length_ft, speed_ft_hr)
        real_print_time_hr == RDiv(theoretical_time_hr, safe_eff(p))
        print_days == RDiv(real_print_time_hr, RInt(SHIFT_HOURS))
        total_project_days ==
            RAdd(RMul(RAdd(p.setup_days, p.teardown_days), p.moves_count),
                 RMul(print_days, p.num_homes))
        days_per_home == RDiv(total_project_days, p.num_homes)
    IN  [avg_speed_mm_s |-> avg_speed_mm_s,
         real_print_time_hr |-> real_print_time_hr,
         print_days |-> print_days,
         total_project_days |-> total_project_days,
         days_per_home |-> days_per_home,
         project_months |-> project_months_of(total_project_days)]

\* C. Material
Material(p, geo, tim) ==
    LET vol_cu_ft ==
            RMul(RMul(geo.total_path_length_ft, RMul(geo.layer_h_mm_safe, MM_TO_FT)),
                 RMul(geo.bead_w_mm_safe, MM_TO_FT))
        weight_lbs == RMul(vol_cu_ft, p.final_density_lbs_ft3)
        weight_tons == RDiv(weight_lbs, RInt(2000))
        total_mat_cost_per_home ==
            RMul(RMul(weight_tons, p.mat_price_ton), RAdd(RInt(1), p.waste_pct))
        flow_rate_l_min ==
            RDiv(RMul(RMul(RMul(tim.avg_speed_mm_s, geo.bead_w_mm_safe),
                           geo.layer_h_mm_safe), RInt(60)),
                 RInt(1000000))
    IN  [weight_tons |-> weight_tons,
         total_mat_cost_per_home |-> total_mat_cost_per_home,
         flow_rate_l_min |-> flow_rate_l_min,
         warnings |-> IF RLt(RInt(30), flow_rate_l_min) THEN <<WarnFlow>> ELSE << >>]

\* D. Labor
total_labor_cost_per_home_PerMove(p, labor_setup_per_move, labor_print_per_home) ==
    LET total_setup_labor_project == RMul(labor_setup_per_move, p.moves_count)
        total_print_labor_project == RMul(labor_print_per_home, p.num_homes)
    IN  IF RIsZero(p.num_homes) THEN Bad
        ELSE RDiv(RAdd(total_setup_labor_project, total_print_labor_project),
                  p.moves_count)

total_labor_cost_per_home(p, labor_setup_per_move, labor_print_per_home) ==
    LET total_setup_labor_project == RMul(labor_setup_per_move, p.moves_count)
        total_print_labor_project == RMul(labor_print_per_home, p.num_homes)
    IN  RDiv(RAdd(total_setup_labor_project, total_print_labor_project),
             p.num_homes)

Labor(p, tim) ==
    LET setup_hrs_per_move == RMul(p.setup_days, RInt(SHIFT_HOURS))
        teardown_hrs_per_move == RMul(p.teardown_days, RInt(SHIFT_HOURS))
        labor_setup_per_move ==
            RMul(RMul(RAdd(setup_hrs_per_move, teardown_hrs_per_move), p.crew_size),
                 p.labor_rate)
        labor_print_per_home ==
            RMul(RMul(tim.real_print_time_hr, p.crew_size), p.labor_rate)
    IN  [labor_setup_per_move |-> labor_setup_per_move,
         labor_print_per_home |-> labor_print_per_home,
         total_labor_cost_per_home |->
             total_labor_cost_per_home(p, labor_setup_per_move, labor_print_per_home)]

\* E. Logistics (cash)
Logistics(p) ==
    LET logistics_cost_per_move ==
            RMul(RAdd(p.setup_days, p.teardown_days), p.crane_rate)
        total_logistics_cost == RMul(logistics_cost_per_move, p.moves_count)
        logistics_cost_per_home == RDiv(total_logistics_cost, p.num_homes)
    IN  [logistics_cost_per_move |-> logistics_cost_per_move,
         logistics_cost_per_home |-> logistics_cost_per_home]

\* F. BOS (cash)
BOS(p, geo) ==
    LET rebar_total == RMul(geo.linear_wall_ft, p.rebar_cost_ft)
        misc_bos_total == RMul(geo.wall_sq_ft, p.misc_bos_sqft)
    IN  RAdd(rebar_total, misc_bos_total)

\* PRINTER ACQUISITION LOGIC
CashOwn == "Cash (Own)"
FinanceOwn == "Finance (Own)"
LeaseRent == "Lease/Rent (Expense)"

own_printer(p) == p.printer_acquisition_type # LeaseRent

machine_cost_per_home_PerProjectHome(p) ==
    IF own_printer(p)
    THEN LET machine_cost_per_year ==
                 RDiv(RMul(p.printer_price, RSub(RInt(1), p.residual_value_pct)),
                      p.depreciation_years)
         IN  IF RIsZero(p.est_prints_per_year) THEN Bad
             ELSE RDiv(machine_cost_per_year, p.num_homes)
    ELSE RInt(0)

\* Non-cash D&A only if owned
machine_cost_per_home(p) ==
    IF own_printer(p)
    THEN LET machine_cost_per_year ==
                 RDiv(RMul(p.printer_price, RSub(RInt(1), p.residual_value_pct)),
                      p.depreciation_years)
         IN  RDiv(machine_cost_per_year, p.est_prints_per_year)
    ELSE RInt(0)

printer_lease_expense_per_home_Times(p, tim) ==
    IF (~own_printer(p)) /\ RLt(RInt(0), p.printer_monthly_payment)
    THEN IF RIsZero(p.num_homes) THEN Bad
         ELSE RMul(RMul(p.printer_monthly_payment, RInt(tim.project_months)), p.num_homes)
    ELSE RInt(0)

\* Lease/Rent: payment is operating expense (cash COGS)
printer_lease_expense_per_home(p, tim) ==
    IF (~own_printer(p)) /\ RLt(RInt(0), p.printer_monthly_payment)
    THEN RDiv(RMul(p.printer_monthly_payment, RInt(tim.project_months)), p.num_homes)
    ELSE RInt(0)

printer_debt_service_per_home_AnyOwned(p, tim) ==
    IF own_printer(p)
       /\ RLt(RInt(0), p.printer_monthly_payment)
       /\ RLt(p.printer_upfront_pct, RInt(1))
    THEN RDiv(RMul(p.printer_monthly_payment, RInt(tim.project_months)), p.num_homes)
    ELSE RInt(0)

printer_debt_service_per_home_AnyUpfront(p, tim) ==
    IF own_printer(p) /\ p.printer_acquisition_type = FinanceOwn
       /\ RLt(RInt(0), p.printer_monthly_payment)
    THEN RDiv(RMul(p.printer_monthly_payment, RInt(tim.project_months)), p.num_homes)
    ELSE RInt(0)

\* Finance (Own): payment is cash flow, not P&L expense
printer_debt_service_per_home(p, tim) ==
    IF own_printer(p) /\ p.printer_acquisition_type = FinanceOwn
       /\ RLt(RInt(0), p.printer_monthly_payment)
       /\ RLt(p.printer_upfront_pct, RInt(1))
    THEN RDiv(RMul(p.printer_monthly_payment, RInt(tim.project_months)), p.num_homes)
    ELSE RInt(0)

\* CASH vs ACCRUAL COSTS
cash_cogs_core(mat, lab, logi, bos) ==
    RAdd(RAdd(RAdd(mat.total_mat_cost_per_home, lab.total_labor_cost_per_home),
              logi.logistics_cost_per_home), bos)

cash_cogs_total_NoLease(core, lease) == core

cash_cogs_total(core, lease) == RAdd(core, lease)

grand_total_NoDepreciation(p, cogs, machine) == cogs

grand_total(p, cogs, machine) ==
    RAdd(cogs, IF own_printer(p) THEN machine ELSE RInt(0))

cash_required_PerHome(p, mat, lab, logi) ==
    LET printer_upfront_cash == RMul(p.printer_price, p.printer_upfront_pct)
        first_payment_cash ==
            IF RLt(p.printer_upfront_pct, RInt(1)) /\ RLt(RInt(0), p.printer_monthly_payment)
            THEN p.printer_monthly_payment ELSE RInt(0)
    IN  RAdd(RAdd(RAdd(RAdd(RAdd(printer_upfront_cash, logi.logistics_cost_per_home),
                            lab.labor_setup_per_move),
                       lab.labor_print_per_home),
                  mat.total_mat_cost_per_home),
             first_payment_cash)

cash_required_FinancedOnly(p, mat, lab, logi) ==
    LET printer_upfront_cash == RMul(p.printer_price, p.printer_upfront_pct)
        first_payment_cash ==
            IF p.printer_acquisition_type = FinanceOwn
               /\ RLt(p.printer_upfront_pct, RInt(1)) /\ RLt(RInt(0), p.printer_monthly_payment)
            THEN p.printer_monthly_payment ELSE RInt(0)
    IN  RAdd(RAdd(RAdd(RAdd(RAdd(printer_upfront_cash, logi.logistics_cost_per_move),
                            lab.labor_setup_per_move),
                       lab.labor_print_per_home),
                  mat.total_mat_cost_per_home),
             first_payment_cash)

\* Upfront capital required (pre-revenue proxy)
cash_required(p, mat, lab, logi) ==
    LET printer_upfront_cash == RMul(p.printer_price, p.printer_upfront_pct)
        first_payment_cash ==
            IF RLt(p.printer_upfront_pct, RInt(1)) /\ RLt(RInt(0), p.printer_monthly_payment)
            THEN p.printer_monthly_payment ELSE RInt(0)
    IN  RAdd(RAdd(RAdd(RAdd(RAdd(printer_upfront_cash, logi.logistics_cost_per_move),
                            lab.labor_setup_per_move),
                       lab.labor_print_per_home),
                  mat.total_mat_cost_per_home),
             first_payment_cash)

\* Unit cost (per floor area)
home_area(p, is_metric) ==
    IF is_metric THEN RDiv(p.sq_ft_home, SQ_M_TO_SQ_FT) ELSE p.sq_ft_home

cost_per_area_Imperial(p, is_metric, total) == RDiv(total, p.sq_ft_home)

cost_per_area(p, is_metric, total) == RDiv(total, home_area(p, is_metric))

NumericFields ==
    {"grand_total", "cash_cost_total", "cash_cogs_total", "cash_cogs_core",
     "mat_cost", "labor_cost", "logistics_cost", "bos_cost", "machine_cost",
     "printer_upfront_cash", "printer_monthly_payment",
     "printer_lease_expense_per_home", "printer_debt_service_per_home",
     "real_print_time_hr", "weight_tons", "total_path_length_ft", "total_layers",
     "avg_speed_mm_s", "days_per_home", "total_project_days", "cash_required",
     "cost_per_area", "flow_rate", "linear_wall_ft", "wall_sq_ft", "home_area"}

Raised == [status |-> "raised", error |-> "ZeroDivisionError"]

\* the result record (or the error) from the values of the stages
Assemble(p, is_metric, geo, tim, mat, lab, logi, bos) ==
    LET machine == machine_cost_per_home(p)
        lease == printer_lease_expense_per_home(p, tim)
        debt == printer_debt_service_per_home(p, tim)
        core == cash_cogs_core(mat, lab, logi, bos)
        cogs == cash_cogs_total(core, lease)
        total == grand_total(p, cogs, machine)
        r == [status |-> "returned",
              grand_total |-> total,
              cash_cost_total |-> cogs,
              cash_cogs_total |-> cogs,
              cash_cogs_core |-> core,
              mat_cost |-> mat.total_mat_cost_per_home,
              labor_cost |-> lab.total_labor_cost_per_home,
              logistics_cost |-> logi.logistics_cost_per_home,
              bos_cost |-> bos,
              machine_cost |-> machine,
              printer_upfront_cash |-> RMul(p.printer_price, p.printer_upfront_pct),
              printer_acquisition_type |-> p.printer_acquisition_type,
              printer_monthly_payment |-> p.printer_monthly_payment,
              printer_lease_expense_per_home |-> lease,
              printer_debt_service_per_home |-> debt,
              project_months |-> tim.project_months,
              real_print_time_hr |-> tim.real_print_time_hr,
              weight_tons |-> mat.weight_tons,
              total_path_length_ft |-> geo.total_path_length_ft,
              total_layers |-> geo.total_layers,
              avg_speed_mm_s |-> tim.avg_speed_mm_s,
              days_per_home |-> tim.days_per_home,
              total_project_days |-> tim.total_project_days,
              cash_required |-> cash_required(p, mat, lab, logi),
              cost_per_area |-> cost_per_area(p, is_metric, total),
              flow_rate |-> mat.flow_rate_l_min,
              warnings |-> EarlyWarnings(p) \o mat.warnings,
              linear_wall_ft |-> geo.linear_wall_ft,
              wall_sq_ft |-> geo.wall_sq_ft,
              home_area |-> home_area(p, is_metric)]
    IN  IF \E f \in NumericFields : IsBad(r[f]) THEN Raised ELSE r

Stages(p, is_metric, geo, tim) ==
    Assemble(p, is_metric, geo, tim,
             Material(p, geo, tim), Labor(p, tim), Logistics(p), BOS(p, geo))

calculate_costs(p, is_metric) ==
    Stages(p, is_metric, Geometry(p), Time(p, Geometry(p)))

\* ---------------------------------------------------------------------
\* 2. DATABASE
\* ---------------------------------------------------------------------
PrinterSpec(price, speed, setup10, teardown10, crew, eff100, bead, layer) ==
    [price |-> RInt(price), speed_mm_s |-> RInt(speed),
     setup_days |-> Rat(setup10, 10), teardown_days |-> Rat(teardown10, 10),
     crew_size |-> RInt(crew), efficiency |-> Rat(eff100, 100),
     bead_width_mm |-> RInt(bead), layer_height_mm |-> RInt(layer)]

PRINTERS ==
    ("COBOD BOD2" :> PrinterSpec(580000, 250, 10, 10, 3, 65, 50, 20))
    @@ ("COBOD BOD3" :> PrinterSpec(1000000, 250, 10, 10, 3, 70, 50, 20))
    @@ ("CyBe RC (Robot Crawler)" :> PrinterSpec(230000, 250, 5, 5, 2, 55, 40, 15))
    @@ ("MudBots (25x25 Model)" :> PrinterSpec(285000, 144, 10, 10, 3, 50, 40, 20))
    @@ ("RIC Technology RIC-M1" :> PrinterSpec(250000, 150, 2, 2, 2, 55, 50, 20))
    @@ ("X-Hab 3D MX3DP" :> PrinterSpec(450000, 250, 2, 2, 3, 55, 45, 20))
    @@ ("Coral 3DCP (Mobile Unit)" :> PrinterSpec(350000, 330, 2, 2, 2, 55, 60, 20))
    @@ ("Alquist 3D A1X" :> PrinterSpec(450000, 200, 10, 10, 3, 60, 50, 20))
    @@ ("SQ4D ARCS" :> PrinterSpec(400000, 250, 20, 20, 3, 65, 80, 25))

MaterialSpec(type, price, density, waste100) ==
    [type |-> type, price_ton |-> RInt(price),
     density_lbs_ft3 |-> RInt(density), waste_pct |-> Rat(waste100, 100)]

MATERIALS ==
    ("Local Concrete + D.fab" :> MaterialSpec("Admix", 70, 145, 10))
    @@ ("CyBe Mortar" :> MaterialSpec("Premix", 420, 131, 5))
    @@ ("CyBe Power Pack" :> MaterialSpec("Premix", 150, 145, 5))
    @@ ("Sika Sikacrete-733 3D" :> MaterialSpec("Premix", 450, 137, 3))
    @@ ("Heidelberg evoBuild / i.tech" :> MaterialSpec("Premix", 500, 134, 4))
    @@ ("Eco Material PozzoCEM" :> MaterialSpec("Green-Mix", 200, 137, 8))
    @@ ("Eco Material PozzoSlag" :> MaterialSpec("Green-Mix", 125, 137, 8))
    @@ ("Local Concrete + Coral Admix" :> MaterialSpec("Admix", 80, 145, 10))
    @@ ("Local Concrete + SQ4D Admix" :> MaterialSpec("Admix", 150, 145, 10))


\* ---------------------------------------------------------------------
\* 3. HELPERS
\* ---------------------------------------------------------------------
\* dict.get(name, default): the entry for name when name is a key
get_printer_specs_AnyDefault(name) ==
    IF name \in DOMAIN PRINTERS THEN PRINTERS[name] ELSE PRINTERS["SQ4D ARCS"]

get_printer_specs(name) ==
    IF name \in DOMAIN PRINTERS THEN PRINTERS[name] ELSE PRINTERS["COBOD BOD2"]

get_material_specs(name) ==
    IF name \in DOMAIN MATERIALS THEN MATERIALS[name]
    ELSE MATERIALS["Local Concrete + D.fab"]

\* Statements run one after the other: {F(s1) : s1 \in {s}} is where F
\* leaves the state s, and Only(S) is the state in S.  (A value is worked
\* out before the next statement starts, as in the source.)
Only(S) == CHOOSE s \in S : TRUE

\* x ** k for a natural k
RECURSIVE RPow(_, _)
Square(x) == RMul(x, x)
RPowStep(half, x, k) ==
    IF IsBad(half) THEN Bad
    ELSE IF k % 2 = 0 THEN Square(half)
    ELSE RMul(Square(half), x)
RPow(x, k) == IF k = 0 THEN RInt(1) ELSE RPowStep(RPow(x, k \div 2), x, k)

RAbs(x) == IF IsBad(x) THEN x ELSE [x EXCEPT !.neg = FALSE]

\* round(x, 0) for x >= 0: to the nearest integer, a tie to the even one
Round0(x, fl) ==
    LET twice == RMul(RInt(2), RSub(x, RInt(fl)))
    IN  IF RLt(twice, RInt(1)) THEN fl
        ELSE IF RLt(RInt(1), twice) THEN fl + 1
        ELSE IF fl % 2 = 0 THEN fl ELSE fl + 1

round(x) == Only({Round0(x, fl) : fl \in {RFloor(x)}})

\* 1 + r in float arithmetic, as far as it decides whether the payment
\* formula divides by zero: a double holds 53 significant bits, so a positive
\* r of at most 2^-53 is rounded away (to nearest, a tie to the even 1.0) and
\* the sum is exactly 1.0.  Any other sum is kept exact.
HalfUlp == RPow(Rat(1, 2), 53)
OnePlus(r) ==
    IF RLt(RInt(0), r) /\ RLe(r, HalfUlp) THEN RInt(1) ELSE RAdd(RInt(1), r)

\* the branches of calc_monthly_payment after its clamps; a zero divisor
\* raises ZeroDivisionError (Bad)
calc_monthly_payment_of(principal, months, r) ==
    IF RLe(r, RInt(0))
    THEN RDiv(principal, RInt(months))
    ELSE Only({RDiv(RMul(principal, r), RSub(RInt(1), RDiv(RInt(1), growth))) :
                  growth \in {RPow(OnePlus(r), months)}})

calc_monthly_payment(principal, annual_rate, months) ==
    calc_monthly_payment_of(RMax(RInt(0), principal),
                            IF 1 >= months THEN 1 ELSE months,
                            RDiv(annual_rate, RInt(12)))

\* ---------------------------------------------------------------------
\* st.session_state: a function from the keys present to their values
\* ---------------------------------------------------------------------
Has(s, k) == k \in DOMAIN s
Put(s, k, v) == (k :> v) @@ s

\* 3.5 _ensure_state; a keyed widget with no stored value stores its default
_ensure_state(s, key, default) == IF Has(s, key) THEN s ELSE Put(s, key, default)

\* the widgets of one block: each key absent from s gets its default
Widgets(s, defaults) == s @@ defaults

Imperial == "Imperial (US)"
Metric == "Metric (EU)"
IsMetric(s) == s["ui_unit_system"] = Metric

_set_ui_from_base(s, m) ==
    [ui_home_area |->
         IF m THEN RDiv(s["base_sq_ft_home"], SQ_M_TO_SQ_FT) ELSE s["base_sq_ft_home"],
     ui_wall_height |->
         IF m THEN RMul(s["base_wall_height_ft"], FT_TO_M) ELSE s["base_wall_height_ft"],
     ui_layer_h |->
         IF m THEN s["base_layer_h_mm"] ELSE RMul(s["base_layer_h_mm"], MM_TO_INCH),
     ui_bead_w |->
         IF m THEN s["base_bead_w_mm"] ELSE RMul(s["base_bead_w_mm"], MM_TO_INCH),
     ui_mat_price |->
         IF m THEN RMul(s["base_mat_price_ton"], TONNE_TO_TON) ELSE s["base_mat_price_ton"],
     ui_density |->
         IF m THEN RDiv(s["base_density_lbs_ft3"], KG_M3_TO_LBS_FT3)
         ELSE s["base_density_lbs_ft3"],
     ui_rebar_cost |->
         IF m THEN RMul(s["base_rebar_cost_ft"], M_TO_FT) ELSE s["base_rebar_cost_ft"],
     ui_misc_bos |->
         IF m THEN RMul(s["base_misc_bos_sqft"], SQ_M_TO_SQ_FT)
         ELSE s["base_misc_bos_sqft"]]
    @@ s

\* ---------------------------------------------------------------------
\* 7. MAIN CONTROL PANEL (Project): one run of the script, section by
\* section, as a function of the session state it starts from
\* ---------------------------------------------------------------------
Header(s) ==
    Widgets(s, [ui_unit_system |-> Imperial,
                ui_selected_printer |-> "COBOD BOD2",
                ui_selected_material |-> "Local Concrete + D.fab",
                ui_num_homes |-> RInt(6)])

printer_defaults(s) == PRINTERS[s["ui_selected_printer"]]
mat_defaults(s) == MATERIALS[s["ui_selected_material"]]

CoreBases(s) ==
    Widgets(s, [base_sq_ft_home |-> RInt(1500),
                base_wall_height_ft |-> RInt(9),
                base_rebar_cost_ft |-> RInt(2),
                base_misc_bos_sqft |-> Rat(225, 100)])

PrinterChanged(s) ==
    \/ ~Has(s, "_prev_selected_printer")
    \/ s["_prev_selected_printer"] # s["ui_selected_printer"]
    \/ ~Has(s, "base_layer_h_mm")

PrinterBases(s) ==
    IF PrinterChanged(s)
    THEN [_prev_selected_printer |-> s["ui_selected_printer"],
          base_layer_h_mm |-> printer_defaults(s).layer_height_mm,
          base_bead_w_mm |-> printer_defaults(s).bead_width_mm] @@ s
    ELSE s

MaterialChanged(s) ==
    \/ ~Has(s, "_prev_selected_material")
    \/ s["_prev_selected_material"] # s["ui_selected_material"]
    \/ ~Has(s, "base_mat_price_ton")

MaterialBases(s) ==
    IF MaterialChanged(s)
    THEN [_prev_selected_material |-> s["ui_selected_material"],
          base_mat_price_ton |-> mat_defaults(s).price_ton,
          base_density_lbs_ft3 |-> mat_defaults(s).density_lbs_ft3] @@ s
    ELSE s

UnitChanged(s) ==
    \/ ~Has(s, "_prev_is_metric")
    \/ s["_prev_is_metric"] # IsMetric(s)

UnitBases(s) ==
    IF UnitChanged(s) THEN Put(s, "_prev_is_metric", IsMetric(s)) ELSE s

refresh_ui(s) ==
    \/ ~Has(s, "base_initialized")
    \/ PrinterChanged(s)
    \/ MaterialChanged(s)
    \/ UnitChanged(s)

Refresh(s, refresh) ==
    IF refresh
    THEN Put(_set_ui_from_base(s, IsMetric(s)), "base_initialized", TRUE)
    ELSE s

Bases4(s) ==
    Only({UnitBases(s4) : s4 \in
         {MaterialBases(s3) : s3 \in
         {PrinterBases(s2) : s2 \in
         {CoreBases(s1) : s1 \in {s}}}}})

BaseDefaults(s) == Refresh(Bases4(s), refresh_ui(s))

\* Update canonical base from UI
HomeArea(s) ==
    Put(s, "base_sq_ft_home",
        IF IsMetric(s) THEN RMul(s["ui_home_area"], SQ_M_TO_SQ_FT)
        ELSE s["ui_home_area"])

\* ---------------------------------------------------------------------
\* 9. ADVANCED OVERRIDES
\* ---------------------------------------------------------------------
EnsureUi(s, key) == IF Has(s, key) THEN s ELSE _set_ui_from_base(s, IsMetric(s))

\* Material Costs
MatPrice(s) ==
    Put(s, "base_mat_price_ton",
        IF IsMetric(s) THEN RMul(s["ui_mat_price"], RDiv(RInt(1), TONNE_TO_TON))
        ELSE s["ui_mat_price"])

\* Labor, Logistics & Overhead; Printer (Asset + Cash Structure), left column
FinDefaults(s) ==
    Widgets(s, [ui_waste_pct |-> RMul(mat_defaults(s).waste_pct, RInt(100)),
                ui_labor_rate |-> RInt(40),
                ui_crane_rate |-> RInt(1500),
                ui_sga_per_home |-> RInt(0),
                ui_printer_price |-> printer_defaults(s).price,
                ui_depreciation_years |-> RInt(5),
                ui_residual_val |-> RInt(20),
                ui_est_prints_per_year |-> RInt(12),
                ui_printer_upfront_pct |-> RInt(20)])

DEFAULT_APR == Rat(10, 100)

term_months(s) ==
    LET m == RFloor(RMul(s["ui_depreciation_years"], RInt(12)))
    IN  IF 1 >= m THEN 1 ELSE m

suggested_payment(s) ==
    calc_monthly_payment(
        RMul(s["ui_printer_price"],
             RSub(RInt(1), RDiv(s["ui_printer_upfront_pct"], RInt(100)))),
        DEFAULT_APR, term_months(s))

AutoPayment(s, suggested) ==
    IF s["ui_auto_calc_payment"]
    THEN Put(s, "ui_printer_monthly_payment", RInt(round(suggested)))
    ELSE s

PaymentWidgets(s, suggested) ==
    AutoPayment(
        Widgets(s, [ui_printer_acquisition_type |-> FinanceOwn,
                    ui_auto_calc_payment |-> TRUE,
                    ui_printer_monthly_payment |-> RInt(round(suggested))]),
        suggested)

\* Printer (Asset + Cash Structure), right column
Financing(s) ==
    IF RLt(s["ui_printer_upfront_pct"], RInt(100))
    THEN Only({PaymentWidgets(s, suggested) : suggested \in {suggested_payment(s)}})
    ELSE s

EnsureMatPrice(s) == EnsureUi(s, "ui_mat_price")

TabFin(s) ==
    Only({Financing(s4) : s4 \in
         {FinDefaults(s3) : s3 \in
         {MatPrice(s2) : s2 \in
         {EnsureMatPrice(s1) : s1 \in {s}}}}})

\* Wall Dimensions
WallHeight(s) ==
    Put(s, "base_wall_height_ft",
        IF IsMetric(s) THEN RMul(s["ui_wall_height"], M_TO_FT)
        ELSE s["ui_wall_height"])

\* Print Resolution
PrintResolution(s) ==
    IF IsMetric(s)
    THEN [base_layer_h_mm |-> s["ui_layer_h"],
          base_bead_w_mm |-> s["ui_bead_w"]] @@ s
    ELSE [base_layer_h_mm |-> RMul(s["ui_layer_h"], RDiv(RInt(1), MM_TO_INCH)),
          base_bead_w_mm |-> RMul(s["ui_bead_w"], RDiv(RInt(1), MM_TO_INCH))] @@ s

WallDensity(s) == _ensure_state(s, "ui_wall_density", Rat(20, 100))
EnsureWallHeight(s) == EnsureUi(s, "ui_wall_height")
EnsurePrintResolution(s) == EnsureUi(EnsureUi(s, "ui_layer_h"), "ui_bead_w")
Passes(s) == _ensure_state(s, "ui_passes_per_layer", RInt(2))

TabGeo(s) ==
    Only({Passes(s6) : s6 \in
         {PrintResolution(s5) : s5 \in
         {EnsurePrintResolution(s4) : s4 \in
         {WallHeight(s3) : s3 \in
         {EnsureWallHeight(s2) : s2 \in
         {WallDensity(s1) : s1 \in {s}}}}}}})

moves_default(s) ==
    LET c == RCeil(RDiv(s["ui_num_homes"], RInt(2)))
    IN  IF 1 >= c THEN 1 ELSE c

\* Speed & Efficiency; Site Crew
OpsDefaults(s) ==
    Widgets(s, [ui_print_speed_mm_s |-> printer_defaults(s).speed_mm_s,
                ui_efficiency_pct |->
                    RInt(RFloor(RMul(printer_defaults(s).efficiency, RInt(100)))),
                ui_crew_size |-> printer_defaults(s).crew_size,
                ui_moves_count |-> RInt(moves_default(s))])

\* Material Params
Density(s) ==
    Put(s, "base_density_lbs_ft3",
        IF IsMetric(s) THEN RMul(s["ui_density"], KG_M3_TO_LBS_FT3)
        ELSE s["ui_density"])

EnsureDensity(s) == EnsureUi(s, "ui_density")

TabOps(s) ==
    Only({Density(s3) : s3 \in
         {EnsureDensity(s2) : s2 \in
         {OpsDefaults(s1) : s1 \in {s}}}})

\* Mobilization
BosDefaults(s) ==
    Widgets(s, [ui_setup_days |-> printer_defaults(s).setup_days,
                ui_teardown_days |-> printer_defaults(s).teardown_days])

\* Reinforcement (Rebar)
Rebar(s) ==
    Put(s, "base_rebar_cost_ft",
        IF IsMetric(s) THEN RMul(s["ui_rebar_cost"], RDiv(RInt(1), M_TO_FT))
        ELSE s["ui_rebar_cost"])

\* Insulation & Lintels
MiscBos(s) ==
    Put(s, "base_misc_bos_sqft",
        IF IsMetric(s) THEN RMul(s["ui_misc_bos"], RDiv(RInt(1), SQ_M_TO_SQ_FT))
        ELSE s["ui_misc_bos"])

EnsureRebar(s) == EnsureUi(s, "ui_rebar_cost")
EnsureMiscBos(s) == EnsureUi(s, "ui_misc_bos")

TabBos(s) ==
    Only({MiscBos(s5) : s5 \in
         {EnsureMiscBos(s4) : s4 \in
         {Rebar(s3) : s3 \in
         {EnsureRebar(s2) : s2 \in
         {BosDefaults(s1) : s1 \in {s}}}}}})

\* the session state after one run of the script (sections 7 and 9)
RunScript(s) ==
    Only({TabBos(s7) : s7 \in
         {TabOps(s6) : s6 \in
         {TabGeo(s5) : s5 \in
         {TabFin(s4) : s4 \in
         {HomeArea(s3) : s3 \in
         {BaseDefaults(s2) : s2 \in
         {Header(s1) : s1 \in {s}}}}}}}})

\* ---------------------------------------------------------------------
\* 10. SCENARIO INPUTS (CANONICAL BASES FEED THE MODEL)
\* ---------------------------------------------------------------------
Get(s, key, default) == IF Has(s, key) THEN s[key] ELSE default

inputs_a(s) ==
    [sq_ft_home |-> s["base_sq_ft_home"],
     wall_density |-> Get(s, "ui_wall_density", Rat(20, 100)),
     wall_height_ft |-> s["base_wall_height_ft"],
     layer_h_mm |-> s["base_layer_h_mm"],
     passes_per_layer |-> Get(s, "ui_passes_per_layer", RInt(2)),
     print_speed_mm_s |-> Get(s, "ui_print_speed_mm_s", printer_defaults(s).speed_mm_s),
     efficiency |->
         RDiv(Get(s, "ui_efficiency_pct",
                  RInt(RFloor(RMul(printer_defaults(s).efficiency, RInt(100))))),
              RInt(100)),
     bead_w_mm |-> s["base_bead_w_mm"],
     final_density_lbs_ft3 |-> s["base_density_lbs_ft3"],
     mat_price_ton |-> s["base_mat_price_ton"],
     waste_pct |->
         RDiv(Get(s, "ui_waste_pct", RMul(mat_defaults(s).waste_pct, RInt(100))),
              RInt(100)),
     setup_days |-> Get(s, "ui_setup_days", printer_defaults(s).setup_days),
     teardown_days |-> Get(s, "ui_teardown_days", printer_defaults(s).teardown_days),
     moves_count |-> Get(s, "ui_moves_count", RInt(moves_default(s))),
     crew_size |-> Get(s, "ui_crew_size", printer_defaults(s).crew_size),
     labor_rate |-> Get(s, "ui_labor_rate", RInt(40)),
     printer_price |-> Get(s, "ui_printer_price", printer_defaults(s).price),
     residual_value_pct |-> RDiv(Get(s, "ui_residual_val", RInt(20)), RInt(100)),
     depreciation_years |-> Get(s, "ui_depreciation_years", RInt(5)),
     est_prints_per_year |-> Get(s, "ui_est_prints_per_year", RInt(12)),
     crane_rate |-> Get(s, "ui_crane_rate", RInt(1500)),
     num_homes |-> s["ui_num_homes"],
     rebar_cost_ft |-> s["base_rebar_cost_ft"],
     misc_bos_sqft |-> s["base_misc_bos_sqft"],
     sga_per_home |-> Get(s, "ui_sga_per_home", RInt(0)),
     printer_upfront_pct |-> RDiv(Get(s, "ui_printer_upfront_pct", RInt(20)), RInt(100)),
     printer_acquisition_type |-> Get(s, "ui_printer_acquisition_type", CashOwn),
     printer_monthly_payment |-> Get(s, "ui_printer_monthly_payment", RInt(0))]

\* ---------------------------------------------------------------------
\* Inputs of calculate_costs.  ScenarioA is the worked example of the
\* specification with the application's defaults for the fields it leaves
\* open (rebar 2.00 $/ft, misc integration 2.25 $/ft2, upfront 20 %).
\* ---------------------------------------------------------------------
\* ---------------------------------------------------------------------
\* 3. HELPERS: build_pnl_df(res, sale_price, sga_per_home).  The two data
\* frames are a sequence of rows (item, cash, accounting) and a sequence of
\* metrics (metric, cash, accounting).
\* ---------------------------------------------------------------------
Row(item, cash, accounting) ==
    [item |-> item, cash |-> cash, accounting |-> accounting]

accrual_ebit_NoDepreciation(ebitda, da) == ebitda

accrual_ebit(ebitda, da) == RSub(ebitda, da)

pnl_rows(r, sale_price, sga_per_home, cash_cogs, da, gross_profit, ebitda) ==
    <<Row("Revenue", sale_price, sale_price),
      Row("COGS - Material", Get(r, "mat_cost", RInt(0)), Get(r, "mat_cost", RInt(0))),
      Row("COGS - Labor", Get(r, "labor_cost", RInt(0)), Get(r, "labor_cost", RInt(0))),
      Row("COGS - Logistics", Get(r, "logistics_cost", RInt(0)),
          Get(r, "logistics_cost", RInt(0))),
      Row("COGS - Integration", Get(r, "bos_cost", RInt(0)), Get(r, "bos_cost", RInt(0))),
      Row("Total COGS (Cash)", cash_cogs, cash_cogs),
      Row("Gross Profit", gross_profit, gross_profit),
      Row("SG&A / Overhead", sga_per_home, sga_per_home),
      Row("EBITDA", ebitda, ebitda),
      Row("Depreciation/Amortization (Printer)", RInt(0), da),
      Row("EBIT (Operating Profit)", ebitda, accrual_ebit(ebitda, da))>>

pnl_metrics_Unguarded(sale_price, cash_cogs, ebitda, cash_ebit, accrual) ==
    <<Row("EBITDA Margin", RDiv(ebitda, sale_price), RDiv(ebitda, sale_price)),
      Row("EBIT Margin", RDiv(cash_ebit, sale_price), RDiv(accrual, sale_price)),
      Row("Cash COGS % of Revenue", RDiv(cash_cogs, sale_price),
          RDiv(cash_cogs, sale_price))>>

pnl_metrics(sale_price, cash_cogs, ebitda, cash_ebit, accrual) ==
    IF RLt(RInt(0), sale_price)
    THEN <<Row("EBITDA Margin", RDiv(ebitda, sale_price), RDiv(ebitda, sale_price)),
           Row("EBIT Margin", RDiv(cash_ebit, sale_price), RDiv(accrual, sale_price)),
           Row("Cash COGS % of Revenue", RDiv(cash_cogs, sale_price),
               RDiv(cash_cogs, sale_price))>>
    ELSE <<Row("EBITDA Margin", RInt(0), RInt(0)),
           Row("EBIT Margin", RInt(0), RInt(0)),
           Row("Cash COGS % of Revenue", RInt(0), RInt(0))>>

pnl_frames(r, sale_price, sga_per_home, cash_cogs, da, gross_profit, ebitda) ==
    [df |-> pnl_rows(r, sale_price, sga_per_home, cash_cogs, da, gross_profit, ebitda),
     df_m |-> pnl_metrics(sale_price, cash_cogs, ebitda, ebitda,
                          accrual_ebit(ebitda, da))]

pnl_from(r, sale_price, sga_per_home, cash_cogs, da) ==
    pnl_frames(r, sale_price, sga_per_home, cash_cogs, da,
               RSub(sale_price, cash_cogs),
               RSub(RSub(sale_price, cash_cogs), sga_per_home))

build_pnl_df(r, sale_price, sga_per_home) ==
    pnl_from(r, sale_price, sga_per_home,
             Get(r, "cash_cogs_total", Get(r, "cash_cost_total", RInt(0))),
             Get(r, "machine_cost", RInt(0)))

\* ---------------------------------------------------------------------
\* The single-scenario tab (with tab_single): the engine's result, the Job
\* Cash Reality totals and table, the bid price and the P&L.
\* ---------------------------------------------------------------------
\* round_to_nearest_thousand(x)
round_to_nearest_thousand(x) ==
    RFloor(RDiv(RAdd(RMax(RInt(0), x), RInt(500)), RInt(1000))) * 1000

\* the value of the bid price widget: what the user typed, or the default
\* of 1.3 times the accrual total
sale_price_of(r, typed) ==
    IF typed = << >>
    THEN RInt(round_to_nearest_thousand(RMul(r.grand_total, Rat(13, 10))))
    ELSE typed[1]

Component(item, project_total) == [item |-> item, project_total |-> project_total]

breakdown_NoDebtService(mat_project, labor_project, logistics_project, bos_project, lease_project, debt_service_project) ==
    <<Component("Material", mat_project),
      Component("Labor", labor_project),
      Component("Logistics", logistics_project),
      Component("Integration", bos_project)>>
    \o (IF RLt(RInt(0), lease_project)
        THEN <<Component("Printer lease/rent (operating expense)", lease_project)>>
        ELSE << >>)

breakdown(mat_project, labor_project, logistics_project, bos_project, lease_project, debt_service_project) ==
    <<Component("Material", mat_project),
      Component("Labor", labor_project),
      Component("Logistics", logistics_project),
      Component("Integration", bos_project)>>
    \o (IF RLt(RInt(0), lease_project)
        THEN <<Component("Printer lease/rent (operating expense)", lease_project)>>
        ELSE << >>)
    \o (IF RLt(RInt(0), debt_service_project)
        THEN <<Component("Printer Debt Service", debt_service_project)>>
        ELSE << >>)

\* df[column].sum() over the first k rows
RECURSIVE ColumnSum(_, _, _)
ColumnSum(df, column, k) ==
    IF k = 0 THEN RInt(0)
    ELSE RAdd(ColumnSum(df, column, k - 1), df[k][column])

\* the table with its "Per Month (avg.)" column and its TOTAL row
df_breakdown(rows, project_months) ==
    LET df == [i \in DOMAIN rows |->
                  [item |-> rows[i].item,
                   project_total |-> rows[i].project_total,
                   per_month |-> RDiv(rows[i].project_total, RInt(project_months))]]
    IN  Append(df, [item |-> "TOTAL",
                    project_total |-> ColumnSum(df, "project_total", Len(df)),
                    per_month |-> ColumnSum(df, "per_month", Len(df))])

job_cash_from(project_months, mat_project, labor_project, logistics_project, bos_project, lease_project, debt_service_project) ==
    LET total_job_cash ==
            RAdd(RAdd(RAdd(RAdd(RAdd(mat_project, labor_project), logistics_project),
                           bos_project), lease_project), debt_service_project)
    IN  [total_job_cash |-> total_job_cash,
         avg_monthly_burn |->
             IF project_months > 0 THEN RDiv(total_job_cash, RInt(project_months))
             ELSE RInt(0),
         df_breakdown |->
             df_breakdown(breakdown(mat_project, labor_project, logistics_project,
                                    bos_project, lease_project, debt_service_project),
                          project_months)]

\* Job Cash Reality totals, computed once from the result
job_cash(r, num_homes) ==
    job_cash_from(IF 1 >= Get(r, "project_months", 1) THEN 1
                  ELSE Get(r, "project_months", 1),
                  RMul(Get(r, "mat_cost", RInt(0)), num_homes),
                  RMul(Get(r, "labor_cost", RInt(0)), num_homes),
                  RMul(Get(r, "logistics_cost", RInt(0)), num_homes),
                  RMul(Get(r, "bos_cost", RInt(0)), num_homes),
                  RMul(Get(r, "printer_lease_expense_per_home", RInt(0)), num_homes),
                  RMul(Get(r, "printer_debt_service_per_home", RInt(0)), num_homes))

\* what the tab shows for a result; nothing when the engine raised
single_tab_of(q, r, typed) ==
    IF r.status = "raised" THEN r
    ELSE [status |-> "shown",
          res |-> r,
          job |-> job_cash(r, q.num_homes),
          sale_price |-> sale_price_of(r, typed),
          pnl |-> build_pnl_df(r, sale_price_of(r, typed),
                               Get(q, "sga_per_home", RInt(0)))]

single_tab(q, m, typed) == single_tab_of(q, calculate_costs(q, m), typed)

ScenarioA ==
    [sq_ft_home |-> RInt(1500),
     wall_density |-> Rat(20, 100),
     wall_height_ft |-> RInt(9),
     layer_h_mm |-> RInt(20),
     passes_per_layer |-> RInt(2),
     print_speed_mm_s |-> RInt(250),
     efficiency |-> Rat(65, 100),
     bead_w_mm |-> RInt(50),
     final_density_lbs_ft3 |-> RInt(145),
     mat_price_ton |-> RInt(70),
     waste_pct |-> Rat(10, 100),
     setup_days |-> RInt(1),
     teardown_days |-> RInt(1),
     moves_count |-> RInt(1),
     crew_size |-> RInt(3),
     labor_rate |-> RInt(40),
     printer_price |-> RInt(580000),
     residual_value_pct |-> Rat(20, 100),
     depreciation_years |-> RInt(5),
     est_prints_per_year |-> RInt(12),
     crane_rate |-> RInt(1500),
     num_homes |-> RInt(1),
     rebar_cost_ft |-> RInt(2),
     misc_bos_sqft |-> Rat(225, 100),
     sga_per_home |-> RInt(0),
     printer_upfront_pct |-> Rat(20, 100),
     printer_acquisition_type |-> CashOwn,
     printer_monthly_payment |-> RInt(0)]

MaxHomes == 6
HomeCounts == 0 .. MaxHomes
AcquisitionTypes == {CashOwn, FinanceOwn, LeaseRent}

Inputs ==
    {[ScenarioA EXCEPT !.num_homes = RInt(n),
                       !.sq_ft_home = RInt(a),
                       !.printer_acquisition_type = t,
                       !.printer_monthly_payment = RInt(m),
                       !.printer_upfront_pct = Rat(u, 100),
                       !.depreciation_years = RInt(y[1]),
                       !.est_prints_per_year = RInt(y[2]),
                       !.setup_days = Rat(sd, 10),
                       !.teardown_days = Rat(sd, 10)] :
        n \in HomeCounts, a \in {0, 1500}, t \in AcquisitionTypes,
        m \in {0, 9859}, u \in {20, 100},
        y \in {<<5, 12>>, <<0, 12>>, <<5, 0>>}, sd \in {0, 10}}

VARIABLES p, is_metric, res, pc, ss, base0, toggles, calls, scenario_results
vars == <<p, is_metric, res, pc, ss, base0, toggles, calls, scenario_results>>

NoResult == [status |-> "none"]
NoSession == << >>
NoCalls == << >>
NoScenarios == << >>

\* a direct call of the engine on an input record
Init ==
    /\ p \in Inputs
    /\ is_metric \in BOOLEAN
    /\ res = NoResult
    /\ pc = "ready"
    /\ ss = NoSession
    /\ base0 = NoSession
    /\ toggles = 0
    /\ calls = NoCalls
    /\ scenario_results = NoScenarios

\* the record of a call: what it was given and what it returned
Call(q, m, r) == [p |-> q, is_metric |-> m, res |-> r]

\* a call whose result depends on how many calls came before
Calculate_Stateful ==
    /\ pc = "ready"
    /\ res' = calculate_costs([p EXCEPT !.moves_count = RInt(Len(calls) + 1)],
                              is_metric)
    /\ calls' = Append(calls, Call(p, is_metric, res'))
    /\ pc' = "done"
    /\ UNCHANGED <<p, is_metric, ss, base0, toggles, scenario_results>>

\* res = calculate_costs(inputs_a, is_metric); the function assigns to
\* nothing but its own locals
Calculate ==
    /\ pc = "ready"
    /\ res' = calculate_costs(p, is_metric)
    /\ calls' = Append(calls, Call(p, is_metric, res'))
    /\ pc' = "done"
    /\ UNCHANGED <<p, is_metric, ss, base0, toggles, scenario_results>>

Next == Calculate

Spec == Init /\ [][Next]_vars

\* A caller that calls the engine several times, each time on an input
\* record and a unit flag of its choice.
MaxCalls == 3
CallInputs ==
    {ScenarioA,
     [ScenarioA EXCEPT !.num_homes = RInt(6), !.moves_count = RInt(3),
                       !.printer_acquisition_type = LeaseRent,
                       !.printer_monthly_payment = RInt(9859)]}

InitCalls ==
    /\ p \in CallInputs
    /\ is_metric \in BOOLEAN
    /\ res = NoResult
    /\ pc = "ready"
    /\ ss = NoSession
    /\ base0 = NoSession
    /\ toggles = 0
    /\ calls = NoCalls
    /\ scenario_results = NoScenarios

\* the caller builds the input of its next call
Prepare(q, m) ==
    /\ pc = "done"
    /\ Len(calls) < MaxCalls
    /\ p' = q
    /\ is_metric' = m
    /\ pc' = "ready"
    /\ UNCHANGED <<res, ss, base0, toggles, calls, scenario_results>>

NextCalls ==
    \/ Calculate
    \/ \E q \in CallInputs, m \in BOOLEAN : Prepare(q, m)

SpecCalls == InitCalls /\ [][NextCalls]_vars

\* a direct call of the engine on an input record with degenerate or
\* aggressive print settings (one home)
EdgeInputs ==
    {[ScenarioA EXCEPT !.layer_h_mm = Rat(lh, 100),
                       !.bead_w_mm = Rat(bw, 100),
                       !.efficiency = Rat(ef, 1000),
                       !.print_speed_mm_s = RInt(sp)] :
        lh \in {0, 25, 50, 2000, 3000}, bw \in {0, 50, 100, 5000},
        ef \in {0, 5, 10, 650, 900, 950}, sp \in {0, 250, 350}}

InitEdge ==
    /\ p \in EdgeInputs
    /\ is_metric \in BOOLEAN
    /\ res = NoResult
    /\ pc = "ready"
    /\ ss = NoSession
    /\ base0 = NoSession
    /\ toggles = 0
    /\ calls = NoCalls
    /\ scenario_results = NoScenarios

SpecEdge == InitEdge /\ [][Next]_vars

\* a direct call of the engine on an input record of a project with no,
\* short or long site work and with or without walls to print
DurationInputs ==
    {[ScenarioA EXCEPT !.setup_days = RInt(sd),
                       !.teardown_days = RInt(td),
                       !.moves_count = RInt(mv),
                       !.wall_density = Rat(wd, 100),
                       !.num_homes = RInt(n)] :
        sd \in {0, 1, 14, 15}, td \in {0, 15, 16}, mv \in {0, 1, 2},
        wd \in {0, 20}, n \in {1, 2, 6}}

InitDuration ==
    /\ p \in DurationInputs
    /\ is_metric \in BOOLEAN
    /\ res = NoResult
    /\ pc = "ready"
    /\ ss = NoSession
    /\ base0 = NoSession
    /\ toggles = 0
    /\ calls = NoCalls
    /\ scenario_results = NoScenarios

SpecDuration == InitDuration /\ [][Next]_vars

\* ---------------------------------------------------------------------
\* A browser session: the script runs when the session opens and again
\* after everything the user does to a widget.
\* ---------------------------------------------------------------------
BaseKeys ==
    {"base_sq_ft_home", "base_wall_height_ft", "base_layer_h_mm", "base_bead_w_mm",
     "base_mat_price_ton", "base_density_lbs_ft3", "base_rebar_cost_ft",
     "base_misc_bos_sqft"}

Bases(s) == [k \in BaseKeys |-> s[k]]

NoInputs == << >>

InitSession ==
    /\ p = NoInputs
    /\ is_metric = FALSE
    /\ res = NoResult
    /\ pc = "start"
    /\ ss = NoSession
    /\ base0 = NoSession
    /\ toggles = 0
    /\ calls = NoCalls
    /\ scenario_results = NoScenarios

\* the printers, materials and wall heights (in the units shown) the user
\* picks, and the number of times the user flips the unit system
SessionPrinters == {"COBOD BOD3", "SQ4D ARCS"}
SessionMaterials == {"CyBe Mortar", "Eco Material PozzoCEM"}
WallHeights == {RInt(8), RInt(10), Rat(105, 10)}
MaxToggles == 3

Edit(key, value) == [kind |-> "edit", key |-> key, value |-> value]
NoEdit == [kind |-> "none"]
ToggleUnits(s) ==
    [kind |-> "toggle", key |-> "ui_unit_system",
     value |-> IF IsMetric(s) THEN Imperial ELSE Metric]

\* The user fills the panel top to bottom, each widget once: a printer while
\* material and wall height are as the first run left them, and so on.
FirstMaterial(s) == s["ui_selected_material"] = "Local Concrete + D.fab"
FirstWallHeight(s) == REq(s["ui_wall_height"], RInt(9))
FirstPrinter(s) == s["ui_selected_printer"] = "COBOD BOD2"

Edits(s) ==
    {Edit("ui_selected_printer", pr) :
        pr \in {x \in SessionPrinters :
                   FirstPrinter(s) /\ FirstMaterial(s) /\ FirstWallHeight(s)}}
    \cup {Edit("ui_selected_material", mt) :
             mt \in {x \in SessionMaterials : FirstMaterial(s) /\ FirstWallHeight(s)}}
    \cup {Edit("ui_wall_height", h) : h \in {x \in WallHeights : FirstWallHeight(s)}}

\* what the user can do next: nothing but open the page at first; then a
\* rerun with no widget changed, a flip of the unit system, or, before the
\* first flip, an edit
Events ==
    IF pc = "start" THEN {NoEdit}
    ELSE {NoEdit}
         \cup (IF toggles < MaxToggles THEN {ToggleUnits(ss)} ELSE {})
         \cup (IF toggles = 0 THEN Edits(ss) ELSE {})

\* the widget state the rerun starts from
After(e, s) == IF e.kind = "none" THEN s ELSE Put(s, e.key, e.value)

\* One run of the script, top to bottom: the panels, then inputs_a and
\* res = calculate_costs(inputs_a, is_metric).  base0 keeps the canonical
\* bases as they were before the first flip of the unit system.
Interact(e) ==
    /\ ss' = RunScript(After(e, ss))
    /\ toggles' = IF e.kind = "toggle" THEN toggles + 1 ELSE toggles
    /\ base0' = IF toggles' = 0 THEN Bases(ss') ELSE base0
    /\ is_metric' = IsMetric(ss')
    /\ p' = inputs_a(ss')
    /\ res' = calculate_costs(p', is_metric')
    /\ pc' = "done"
    /\ UNCHANGED <<calls, scenario_results>>

NextToggle == \E e \in Events : Interact(e)

SpecToggle == InitSession /\ [][NextToggle]_vars

\* A session in which the user customizes print resolution and material
\* values, in any order, and at some point picks another printer and another
\* material.
OtherPrinter == "SQ4D ARCS"
OtherMaterial == "CyBe Mortar"

\* the values the user types, in the units shown (Imperial)
CustomValues ==
    [ui_layer_h |-> RInt(1), ui_bead_w |-> RInt(3),
     ui_mat_price |-> RInt(99), ui_density |-> RInt(150)]

Customizations(s) ==
    {Edit(k, CustomValues[k]) :
        k \in {x \in DOMAIN CustomValues : ~REq(s[x], CustomValues[x])}}

Selections(s) ==
    {Edit("ui_selected_printer", pr) : pr \in {x \in {OtherPrinter} : FirstPrinter(s)}}
    \cup {Edit("ui_selected_material", mt) :
             mt \in {x \in {OtherMaterial} : FirstMaterial(s)}}

CustomEvents ==
    IF pc = "start" THEN {NoEdit} ELSE Customizations(ss) \cup Selections(ss)

NextCustom == \E e \in CustomEvents : Interact(e)

SpecCustom == InitSession /\ [][NextCustom]_vars

\* ---------------------------------------------------------------------
\* A direct call of calc_monthly_payment(principal, annual_rate, months):
\* p holds the arguments, res the payment returned (Bad when the call
\* raises ZeroDivisionError).
\* ---------------------------------------------------------------------
TinyRate == RPow(Rat(1, 10), 16)
Principals == {RInt(-5), RInt(0), RInt(1), RInt(1000), RInt(464000)}
AnnualRates == {Rat(-10, 100), RInt(0), TinyRate, Rat(10, 100), Rat(24, 100)}
Terms == {-3, 0, 1, 2, 12, 60}

InitPayment ==
    /\ p \in [principal : Principals, annual_rate : AnnualRates, months : Terms]
    /\ is_metric = FALSE
    /\ res = NoResult
    /\ pc = "payment"
    /\ ss = NoSession
    /\ base0 = NoSession
    /\ toggles = 0
    /\ calls = NoCalls
    /\ scenario_results = NoScenarios

Pay ==
    /\ pc = "payment"
    /\ res' = calc_monthly_payment(p.principal, p.annual_rate, p.months)
    /\ pc' = "paid"
    /\ UNCHANGED <<p, is_metric, ss, base0, toggles, calls, scenario_results>>

NextPayment == Pay

SpecPayment == InitPayment /\ [][NextPayment]_vars

\* ---------------------------------------------------------------------
\* A lookup in the catalogs: p holds the names asked for, res the entry
\* returned.
\* ---------------------------------------------------------------------
PrinterNames == DOMAIN PRINTERS \cup {"Custom", ""}
MaterialNames == DOMAIN MATERIALS \cup {"Custom", ""}

InitLookup ==
    /\ p \in [printer : PrinterNames, material : MaterialNames]
    /\ is_metric = FALSE
    /\ res = NoResult
    /\ pc = "lookup"
    /\ ss = NoSession
    /\ base0 = NoSession
    /\ toggles = 0
    /\ calls = NoCalls
    /\ scenario_results = NoScenarios

LookupPrinter ==
    /\ pc = "lookup"
    /\ res' = get_printer_specs(p.printer)
    /\ pc' = "printer"
    /\ UNCHANGED <<p, is_metric, ss, base0, toggles, calls, scenario_results>>

LookupMaterial ==
    /\ pc = "lookup"
    /\ res' = get_material_specs(p.material)
    /\ pc' = "material"
    /\ UNCHANGED <<p, is_metric, ss, base0, toggles, calls, scenario_results>>

NextLookup == LookupPrinter \/ LookupMaterial

SpecLookup == InitLookup /\ [][NextLookup]_vars

\* ---------------------------------------------------------------------
\* A call of build_pnl_df(res, sale_price, sga_per_home): p holds the
\* arguments, res the two frames returned.
\* ---------------------------------------------------------------------
CostLines ==
    [mat_cost |-> RInt(5000), labor_cost |-> RInt(9000),
     logistics_cost |-> RInt(3000), bos_cost |-> RInt(6675)]

PnlResults ==
    {CostLines @@ [cash_cogs_total |-> RInt(c), cash_cost_total |-> RInt(c),
                   machine_cost |-> Rat(m, 3)] :
        c \in {0, 23675, 45000}, m \in {0, 23200}}
    \cup {<< >>, [cash_cost_total |-> RInt(23675)]}

SalePrices == {RInt(-1000), RInt(0), RInt(40000), RInt(60000)}
Overheads == {RInt(0), RInt(2500), RInt(5000)}

InitPnl ==
    /\ p \in [res : PnlResults, sale_price : SalePrices, sga_per_home : Overheads]
    /\ is_metric = FALSE
    /\ res = NoResult
    /\ pc = "pnl"
    /\ ss = NoSession
    /\ base0 = NoSession
    /\ toggles = 0
    /\ calls = NoCalls
    /\ scenario_results = NoScenarios

BuildPnl ==
    /\ pc = "pnl"
    /\ res' = build_pnl_df(p.res, p.sale_price, p.sga_per_home)
    /\ pc' = "pnl built"
    /\ UNCHANGED <<p, is_metric, ss, base0, toggles, calls, scenario_results>>

NextPnl == BuildPnl

SpecPnl == InitPnl /\ [][NextPnl]_vars

\* ---------------------------------------------------------------------
\* TAB 2: MULTI-SCENARIO (with tab_compare).  Dictionaries are objects: objs
\* is the sequence of the input dictionaries alive, a reference is an index
\* into it, and inputs_a is the first.  The widgets of alternate i are the
\* keys p<i>, m<i> of the session; a custom printer or material takes the
\* values its widgets show.
\* ---------------------------------------------------------------------
Custom == "Custom"
Letters == <<"B", "C", "D">>
PrinterKeys == <<"p0", "p1", "p2">>
MaterialKeys == <<"m0", "m1", "m2">>
NumAlts == {1, 2, 3}

\* dict.copy(): a new dictionary with the entries of the one copied
dict_copy_Alias(objs, ref) == [objs |-> objs, ref |-> ref]

dict_copy(objs, ref) == [objs |-> Append(objs, objs[ref]), ref |-> Len(objs) + 1]

printer_overrides(new_in, sel_p) ==
    IF sel_p = Custom
    THEN [new_in EXCEPT !.printer_price = RInt(250000),
                        !.print_speed_mm_s = RInt(200),
                        !.efficiency = Rat(6, 10),
                        !.crew_size = RInt(2)]
    ELSE [new_in EXCEPT !.printer_price = get_printer_specs(sel_p).price,
                        !.print_speed_mm_s = get_printer_specs(sel_p).speed_mm_s,
                        !.efficiency = get_printer_specs(sel_p).efficiency,
                        !.crew_size = get_printer_specs(sel_p).crew_size,
                        !.setup_days = get_printer_specs(sel_p).setup_days,
                        !.teardown_days = get_printer_specs(sel_p).teardown_days,
                        !.layer_h_mm = get_printer_specs(sel_p).layer_height_mm,
                        !.bead_w_mm = get_printer_specs(sel_p).bead_width_mm]

material_overrides(new_in, sel_m) ==
    IF sel_m = Custom
    THEN [new_in EXCEPT !.mat_price_ton = RInt(100),
                        !.final_density_lbs_ft3 = RInt(145),
                        !.waste_pct = Rat(5, 100)]
    ELSE [new_in EXCEPT !.mat_price_ton = get_material_specs(sel_m).price_ton,
                        !.final_density_lbs_ft3 = get_material_specs(sel_m).density_lbs_ft3,
                        !.waste_pct = get_material_specs(sel_m).waste_pct]

Scenario(id, label, inputs, r) ==
    [id |-> id, label |-> label, inputs |-> inputs, res |-> r]

\* the end of the loop body: the call of the engine on new_in and the
\* entry appended to the list
alt_call(st, letter, sel_p, m, objs, new_in, r_alt) ==
    [objs |-> objs,
     scenario_results |->
         Append(st.scenario_results, Scenario(letter, letter \o ": " \o sel_p, new_in, r_alt)),
     calls |-> Append(st.calls, Call(objs[new_in], m, r_alt))]

alt_run(st, letter, sel_p, m, objs, new_in) ==
    alt_call(st, letter, sel_p, m, objs, new_in, calculate_costs(objs[new_in], m))

\* the loop body for one alternate, from the copy of inputs_a on
alt_from(st, letter, sel_p, sel_m, m, copied) ==
    alt_run(st, letter, sel_p, m,
            [copied.objs EXCEPT ![copied.ref] =
                material_overrides(printer_overrides(@, sel_p), sel_m)],
            copied.ref)

\* for i in range(num_alts), from alternate i on
RECURSIVE alternates(_, _, _, _)
alternates(st, w, m, i) ==
    IF i >= w["ui_num_alts"] THEN st
    ELSE alternates(alt_from(st, Letters[i + 1], w[PrinterKeys[i + 1]],
                             w[MaterialKeys[i + 1]], m, dict_copy(st.objs, 1)),
                    w, m, i + 1)

\* the tab: the list starts with the base scenario, which holds inputs_a
\* (the first object) and the base result
tab_compare(inputs, r, m, selected_printer, w, called) ==
    alternates([objs |-> <<inputs>>,
                scenario_results |->
                    <<Scenario("A", "A: " \o selected_printer, 1, r)>>,
                calls |-> called],
               w, m, 0)

\* ---------------------------------------------------------------------
\* One run of the single-scenario tab on an input record; the user may have
\* typed a bid price.
\* ---------------------------------------------------------------------
SingleInputs ==
    {[ScenarioA EXCEPT !.num_homes = RInt(n),
                       !.moves_count = RInt(mv),
                       !.printer_acquisition_type = t,
                       !.printer_monthly_payment = RInt(m),
                       !.printer_upfront_pct = Rat(u, 100),
                       !.sga_per_home = RInt(2500)] :
        n \in {1, 2, 6}, mv \in {1, 3}, t \in AcquisitionTypes,
        m \in {0, 9859}, u \in {20, 100}}

TypedPrices == {<< >>, <<RInt(0)>>, <<RInt(60000)>>}

InitSingle ==
    /\ p \in SingleInputs
    /\ is_metric \in BOOLEAN
    /\ res = NoResult
    /\ pc = "single"
    /\ ss = NoSession
    /\ base0 = NoSession
    /\ toggles = 0
    /\ calls = NoCalls
    /\ scenario_results = NoScenarios

SingleTab(typed) ==
    /\ pc = "single"
    /\ res' = single_tab(p, is_metric, typed)
    /\ pc' = "single shown"
    /\ UNCHANGED <<p, is_metric, ss, base0, toggles, calls, scenario_results>>

NextSingle == \E typed \in TypedPrices : SingleTab(typed)

SpecSingle == InitSingle /\ [][NextSingle]_vars

\* ---------------------------------------------------------------------
\* A run of the script up to the comparison tab: the base call, then the
\* alternates for the widgets as the user left them.
\* ---------------------------------------------------------------------
CompareInputs ==
    {ScenarioA,
     [ScenarioA EXCEPT !.num_homes = RInt(6), !.moves_count = RInt(3),
                       !.printer_acquisition_type = LeaseRent,
                       !.printer_monthly_payment = RInt(9859)]}

ShownPrinters == {"COBOD BOD2", "SQ4D ARCS"}

\* the printer and material chosen for one alternate; the first is what the
\* select boxes show at first (index 1)
AltChoices ==
    {<<"COBOD BOD2", "Local Concrete + D.fab">>, <<Custom, Custom>>,
     <<Custom, "CyBe Mortar">>, <<"SQ4D ARCS", Custom>>,
     <<"COBOD BOD3", "Eco Material PozzoCEM">>}

\* the widget values of the tab for n alternates
AltWidgets(n) ==
    {[k \in {"ui_num_alts"} \cup {PrinterKeys[i] : i \in 1 .. n}
                            \cup {MaterialKeys[i] : i \in 1 .. n} |->
         IF k = "ui_num_alts" THEN n
         ELSE IF \E i \in 1 .. n : k = PrinterKeys[i]
              THEN c[CHOOSE i \in 1 .. n : k = PrinterKeys[i]][1]
              ELSE c[CHOOSE i \in 1 .. n : k = MaterialKeys[i]][2]] :
        c \in [1 .. n -> AltChoices]}

InitCompare ==
    /\ p \in CompareInputs
    /\ is_metric \in BOOLEAN
    /\ res = NoResult
    /\ pc = "ready"
    /\ ss = NoSession
    /\ base0 = NoSession
    /\ toggles = 0
    /\ calls = NoCalls
    /\ scenario_results = NoScenarios

\* the state the tab leaves: inputs_a is the first object, the entries hold
\* the dictionaries their references lead to
Compared(st) ==
    /\ p' = st.objs[1]
    /\ scenario_results' =
           [i \in DOMAIN st.scenario_results |->
               [st.scenario_results[i] EXCEPT !.inputs = st.objs[@]]]
    /\ calls' = st.calls

Compare(selected_printer, w) ==
    /\ pc = "done"
    /\ res.status = "returned"
    /\ Compared(tab_compare(p, res, is_metric, selected_printer, w, calls))
    /\ ss' = w
    /\ pc' = "compared"
    /\ UNCHANGED <<is_metric, res, base0, toggles>>

NextCompare ==
    \/ Calculate
    \/ \E selected_printer \in ShownPrinters, n \in NumAlts :
           \E w \in AltWidgets(n) : Compare(selected_printer, w)

SpecCompare == InitCompare /\ [][NextCompare]_vars

\* ---------------------------------------------------------------------
\* Properties of the engine, checked under Spec
\* ---------------------------------------------------------------------
Returned == pc = "done" /\ res.status = "returned"
Zero == RInt(0)

\* the result for the same input record with another home count
ResultFor(n) == calculate_costs([p EXCEPT !.num_homes = RInt(n)], is_metric)
MoreHomes == {n \in HomeCounts : RLt(p.num_homes, RInt(n))}

\* C1: for an input whose num_homes is 0 or whose sq_ft_home is 0 (all other
\* fields in range) the call returns a result whose affected quotients are 0:
\* days_per_home, labor_cost, logistics_cost, lease and debt service per home
\* for num_homes = 0, cost_per_area for sq_ft_home = 0.
C1_DegenerateDenominatorsGuarded ==
    (/\ pc = "done"
     /\ RIsZero(p.num_homes) \/ RIsZero(p.sq_ft_home)
     /\ ~RIsZero(p.depreciation_years)
     /\ ~RIsZero(p.est_prints_per_year))
    => /\ res.status = "returned"
       /\ RIsZero(p.num_homes) =>
            /\ RIsZero(res.days_per_home)
            /\ RIsZero(res.labor_cost)
            /\ RIsZero(res.logistics_cost)
            /\ RIsZero(res.printer_lease_expense_per_home)
            /\ RIsZero(res.printer_debt_service_per_home)
       /\ RIsZero(p.sq_ft_home) => RIsZero(res.cost_per_area)

\* the input invariants of the data model: fractions in [0,1], at least one
\* home, layer height and bead width positive
InRange(x) == RLe(Zero, x) /\ RLe(x, RInt(1))
InputInvariants ==
    /\ InRange(p.efficiency)
    /\ InRange(p.waste_pct)
    /\ InRange(p.residual_value_pct)
    /\ InRange(p.printer_upfront_pct)
    /\ RLe(RInt(1), p.num_homes)
    /\ RLt(Zero, p.layer_h_mm)
    /\ RLt(Zero, p.bead_w_mm)

\* C2: every input that satisfies the input invariants (floor area,
\* depreciation_years and est_prints_per_year may be 0, any acquisition mode)
\* yields a result; no error path is reachable.
C2_TotalOverInputInvariants ==
    (pc = "done" /\ InputInvariants) => res.status = "returned"

IsScenarioAGeometry ==
    /\ REq(p.sq_ft_home, RInt(1500))
    /\ REq(p.wall_density, Rat(20, 100))
    /\ REq(p.wall_height_ft, RInt(9))
    /\ REq(p.layer_h_mm, RInt(20))
    /\ REq(p.passes_per_layer, RInt(2))

\* C3 as stated: for the Scenario A geometry the result has linear_wall_ft =
\* 300, total_layers = 137 and total_path_length_ft = 82,200.
C3_ScenarioA_WholeLayers ==
    (Returned /\ IsScenarioAGeometry)
    => /\ REq(res.linear_wall_ft, RInt(300))
       /\ REq(res.total_layers, RInt(137))
       /\ REq(res.total_path_length_ft, RInt(82200))

\* C3 amended: for the Scenario A geometry the result has linear_wall_ft =
\* 300, total_layers = 137.16 (9 * 304.8 / 20, not rounded; its integer part
\* is 137) and total_path_length_ft = 300 * 137.16 * 2 = 82,296.
C3_ScenarioA_FractionalLayers ==
    (Returned /\ IsScenarioAGeometry)
    => /\ REq(res.linear_wall_ft, RInt(300))
       /\ REq(res.total_layers, Rat(13716, 100))
       /\ RLe(RInt(137), res.total_layers) /\ RLt(res.total_layers, RInt(138))
       /\ REq(res.total_path_length_ft, RInt(82296))

C3_Witness == Returned /\ p = ScenarioA

\* C4: in every result, for every acquisition mode, grand_total equals
\* cash_cogs_total + machine_cost.
C4_AggregationIdentity ==
    Returned => REq(res.grand_total, RAdd(res.cash_cogs_total, res.machine_cost))

C4_Witness ==
    /\ Returned
    /\ p.printer_acquisition_type = FinanceOwn
    /\ RLt(Zero, res.machine_cost)
    /\ RLt(res.cash_cogs_total, res.grand_total)

\* C5: in every result, with 'Cash (Own)' the lease expense and the debt
\* service per home are 0; with 'Lease/Rent (Expense)' the depreciation and
\* the debt service are 0; with 'Finance (Own)' the lease expense is 0.
C5_AcquisitionModeExclusivity ==
    Returned =>
        /\ p.printer_acquisition_type = CashOwn =>
              /\ RIsZero(res.printer_lease_expense_per_home)
              /\ RIsZero(res.printer_debt_service_per_home)
        /\ p.printer_acquisition_type = LeaseRent =>
              /\ RIsZero(res.machine_cost)
              /\ RIsZero(res.printer_debt_service_per_home)
        /\ p.printer_acquisition_type = FinanceOwn =>
              RIsZero(res.printer_lease_expense_per_home)

C5_Witness ==
    /\ Returned
    /\ p.printer_acquisition_type = CashOwn
    /\ RLt(Zero, p.printer_monthly_payment)
    /\ RLt(p.printer_upfront_pct, RInt(1))
    /\ RLt(Zero, res.machine_cost)

\* C6: with 'Lease/Rent (Expense)' and a monthly payment > 0 the result has
\* machine_cost = 0, printer_lease_expense_per_home = payment * project_months
\* / num_homes, cash_cogs_total = material + labor + logistics + integration +
\* that lease allocation, and grand_total = cash_cogs_total.
C6_LeasedPrinter ==
    (/\ Returned
     /\ p.printer_acquisition_type = LeaseRent
     /\ RLt(Zero, p.printer_monthly_payment))
    => LET lease == RDiv(RMul(p.printer_monthly_payment, RInt(res.project_months)),
                         p.num_homes)
       IN  /\ RIsZero(res.machine_cost)
           /\ REq(res.printer_lease_expense_per_home, lease)
           /\ REq(res.cash_cogs_total,
                  RAdd(RAdd(RAdd(RAdd(res.mat_cost, res.labor_cost),
                                 res.logistics_cost), res.bos_cost), lease))
           /\ REq(res.grand_total, res.cash_cogs_total)

C6_Witness ==
    /\ Returned
    /\ p.printer_acquisition_type = LeaseRent
    /\ RLt(Zero, p.printer_monthly_payment)
    /\ RLt(Zero, res.printer_lease_expense_per_home)
    /\ res.project_months > 1

\* C8: all other inputs fixed, for home counts n1 < n2 the labor_cost and the
\* logistics_cost per home for n2 are at most those for n1.
C8_LaborLogisticsMonotone ==
    Returned =>
        \A n \in MoreHomes :
            /\ RLe(ResultFor(n).labor_cost, res.labor_cost)
            /\ RLe(ResultFor(n).logistics_cost, res.logistics_cost)

C8_Witness ==
    /\ Returned
    /\ \E n \in MoreHomes :
          /\ RLt(ResultFor(n).labor_cost, res.labor_cost)
          /\ RLt(ResultFor(n).logistics_cost, res.logistics_cost)

\* C9 as stated: all other inputs fixed, for home counts n1 < n2 each per-home
\* printer cost figure (machine_cost, lease expense, debt service) for n2 is
\* at most the figure for n1.
C9_PrinterCostMonotone ==
    Returned =>
        \A n \in MoreHomes :
            /\ RLe(ResultFor(n).machine_cost, res.machine_cost)
            /\ RLe(ResultFor(n).printer_lease_expense_per_home,
                   res.printer_lease_expense_per_home)
            /\ RLe(ResultFor(n).printer_debt_service_per_home,
                   res.printer_debt_service_per_home)

\* C9 amended: all other inputs fixed, for home counts n1 < n2 the
\* machine_cost for n2 is at most that for n1, and the lease expense and the
\* debt service per home for n2 are at most those for n1 whenever the two
\* projects span the same number of project_months.
C9_PrinterCostMonotoneWithinMonth ==
    Returned =>
        \A n \in MoreHomes :
            /\ RLe(ResultFor(n).machine_cost, res.machine_cost)
            /\ ResultFor(n).project_months = res.project_months =>
                  /\ RLe(ResultFor(n).printer_lease_expense_per_home,
                         res.printer_lease_expense_per_home)
                  /\ RLe(ResultFor(n).printer_debt_service_per_home,
                         res.printer_debt_service_per_home)

C9_Witness ==
    /\ Returned
    /\ p.printer_acquisition_type = LeaseRent
    /\ \E n \in MoreHomes :
          /\ ResultFor(n).project_months = res.project_months
          /\ RLt(ResultFor(n).printer_lease_expense_per_home,
                 res.printer_lease_expense_per_home)

\* the cost of the moves of the project: setup/teardown labor and crane
MobilisationCost ==
    RMul(RMul(RAdd(p.setup_days, p.teardown_days), p.moves_count),
         RAdd(RMul(RMul(RInt(SHIFT_HOURS), p.crew_size), p.labor_rate), p.crane_rate))

\* C10 as stated: cost_per_area is the same for two inputs that differ only
\* in num_homes (same moves_count, owned printer).
C10_CostPerAreaInvariant ==
    (Returned /\ own_printer(p)) =>
        \A n \in MoreHomes : REq(ResultFor(n).cost_per_area, res.cost_per_area)

\* C10 amended: for two inputs that differ only in num_homes (same
\* moves_count, owned printer) cost_per_area is the same when the project's
\* mobilisation cost (moves * (setup + teardown days) * (8 * crew * labor rate
\* + crane rate)) is 0, and is smaller for the larger home count otherwise.
C10_CostPerAreaAmortised ==
    (Returned /\ own_printer(p)) =>
        \A n \in MoreHomes :
            IF RIsZero(MobilisationCost)
            THEN REq(ResultFor(n).cost_per_area, res.cost_per_area)
            ELSE RLt(ResultFor(n).cost_per_area, res.cost_per_area)

C10_Witness ==
    /\ Returned
    /\ own_printer(p)
    /\ RIsZero(MobilisationCost)
    /\ RLt(Zero, res.cost_per_area)
    /\ \E n \in MoreHomes : REq(ResultFor(n).cost_per_area, res.cost_per_area)

\* the result for the same input record with the other unit flag
OtherUnits == calculate_costs(p, ~is_metric)

\* two results agree on field f
SameField(r1, r2, f) ==
    IF f \in NumericFields THEN REq(r1[f], r2[f]) ELSE r1[f] = r2[f]

MetricArea == RDiv(p.sq_ft_home, SQ_M_TO_SQ_FT)

\* C11 as stated: every field of the result other than cost_per_area is the
\* same for is_metric True and False, and the metric cost_per_area is
\* grand_total / (sq_ft_home / 10.7639104).
C11_OnlyCostPerAreaDepends ==
    Returned =>
        /\ OtherUnits.status = "returned"
        /\ \A f \in DOMAIN res \ {"cost_per_area"} : SameField(res, OtherUnits, f)
        /\ is_metric => REq(res.cost_per_area, RDiv(res.grand_total, MetricArea))

\* C11 amended: every field of the result other than cost_per_area and
\* home_area is the same for is_metric True and False; in metric home_area is
\* sq_ft_home / 10.7639104 and cost_per_area is grand_total / home_area, in
\* imperial home_area is sq_ft_home and cost_per_area is grand_total /
\* sq_ft_home.
C11_OnlyAreaFiguresDepend ==
    Returned =>
        /\ OtherUnits.status = "returned"
        /\ \A f \in DOMAIN res \ {"cost_per_area", "home_area"} :
              SameField(res, OtherUnits, f)
        /\ REq(res.home_area, IF is_metric THEN MetricArea ELSE p.sq_ft_home)
        /\ REq(res.cost_per_area, RDiv(res.grand_total, res.home_area))

C11_Witness ==
    /\ Returned
    /\ is_metric
    /\ REq(res.home_area, MetricArea)
    /\ ~REq(res.cost_per_area, OtherUnits.cost_per_area)
    /\ REq(res.grand_total, OtherUnits.grand_total)

\* ---------------------------------------------------------------------
\* Properties of repeated calls of the engine, checked under SpecCalls
\* ---------------------------------------------------------------------
\* every earlier call with the input of the call just made returned the
\* result just returned
SameAsBefore ==
    pc = "done" =>
        \A i \in DOMAIN calls :
            (calls[i].p = p /\ calls[i].is_metric = is_metric) => calls[i].res = res

\* a call leaves its input record and the flag as they were given
InputKept == pc = "ready" => (p' = p /\ is_metric' = is_metric)

AtLeast(floor, x) == IF RLt(x, floor) THEN floor ELSE x
ClampedEfficiency == AtLeast(Rat(1, 100), p.efficiency)
ClampedLayer == AtLeast(Rat(5, 10), p.layer_h_mm)
ClampedBead == AtLeast(RInt(1), p.bead_w_mm)
ClampedSpeed == AtLeast(RInt(1), p.print_speed_mm_s)

\* the input record with the three minimums already applied
Clamped ==
    [p EXCEPT !.efficiency = ClampedEfficiency,
              !.layer_h_mm = ClampedLayer,
              !.bead_w_mm = ClampedBead]

AsIfClamped == calculate_costs(Clamped, is_metric)

ExpectedFlow ==
    RDiv(RMul(RMul(RMul(ClampedSpeed, ClampedBead), ClampedLayer), RInt(60)),
         RInt(1000000))

\* C14: with one home and layer height 0, bead width 0 or efficiency 0 the
\* call returns a result, computed as if efficiency were 0.01, layer height
\* 0.5 mm and bead width 1.0 mm; values at or above those minimums are used
\* as given.
C14_ClampedMinimums ==
    pc = "done" =>
        /\ res.status = "returned"
        /\ REq(res.total_layers,
               RDiv(RMul(p.wall_height_ft, Rat(3048, 10)), ClampedLayer))
        /\ REq(res.flow_rate, ExpectedFlow)
        /\ REq(res.real_print_time_hr,
               RDiv(RDiv(res.total_path_length_ft,
                         RMul(ClampedSpeed, Rat(11811, 1000))),
                    ClampedEfficiency))
        /\ LET as_if == AsIfClamped
           IN  \A f \in NumericFields : REq(res[f], as_if[f])
        /\ (RLe(Rat(1, 100), p.efficiency) /\ RLe(Rat(5, 10), p.layer_h_mm)
            /\ RLe(RInt(1), p.bead_w_mm)) => Clamped = p

C14_Witness ==
    /\ Returned
    /\ RIsZero(p.layer_h_mm) /\ RIsZero(p.bead_w_mm) /\ RIsZero(p.efficiency)
    /\ REq(res.total_layers, Rat(54864, 10))
    /\ ~REq(AsIfClamped.total_layers, RInt(0))

Warned(w) == \E i \in DOMAIN res.warnings : res.warnings[i] = w

\* C17: the result carries the efficiency warning exactly when the clamped
\* efficiency exceeds 0.90, the slump warning exactly when print speed > 300
\* and layer height > 25, the flow-rate warning exactly when clamped speed *
\* clamped bead width * clamped layer height * 60 / 1,000,000 exceeds 30, and
\* no other warning; a result with warnings is still returned with all its
\* numeric fields.
C17_AdvisoryWarnings ==
    pc = "done" =>
        /\ res.status = "returned"
        /\ Warned(WarnEfficiency) <=> RLt(Rat(90, 100), ClampedEfficiency)
        /\ Warned(WarnSlump) <=>
              (RLt(RInt(300), p.print_speed_mm_s) /\ RLt(RInt(25), p.layer_h_mm))
        /\ Warned(WarnFlow) <=> RLt(RInt(30), ExpectedFlow)
        /\ \A i \in DOMAIN res.warnings :
              res.warnings[i] \in {WarnEfficiency, WarnSlump, WarnFlow}
        /\ Len(res.warnings) <= 3
        /\ \A f \in NumericFields : ~IsBad(res[f])

C17_Witness ==
    /\ Returned
    /\ res.warnings = <<WarnEfficiency, WarnSlump, WarnFlow>>
    /\ RLt(Zero, res.grand_total)

\* ---------------------------------------------------------------------
\* Properties of the catalog lookups, checked under SpecLookup
\* ---------------------------------------------------------------------
Entries(catalog) == {catalog[k] : k \in DOMAIN catalog}

\* C16: get_printer_specs(name) returns the PRINTERS entry for name when name
\* is a key and the 'COBOD BOD2' entry otherwise; get_material_specs(name)
\* returns the MATERIALS entry for name when present and the 'Local Concrete
\* + D.fab' entry otherwise; for every name an entry is returned.
C16_LookupTotal ==
    /\ pc = "printer" =>
          /\ res \in Entries(PRINTERS)
          /\ p.printer \in DOMAIN PRINTERS => res = PRINTERS[p.printer]
          /\ p.printer \notin DOMAIN PRINTERS => res = PRINTERS["COBOD BOD2"]
    /\ pc = "material" =>
          /\ res \in Entries(MATERIALS)
          /\ p.material \in DOMAIN MATERIALS => res = MATERIALS[p.material]
          /\ p.material \notin DOMAIN MATERIALS
                => res = MATERIALS["Local Concrete + D.fab"]

C16_Witness ==
    /\ pc = "printer"
    /\ p.printer = "Custom"
    /\ res = PRINTERS["COBOD BOD2"]
    /\ res.price = RInt(580000)

\* ---------------------------------------------------------------------
\* Properties of build_pnl_df, checked under SpecPnl
\* ---------------------------------------------------------------------
PnlBuilt == pc = "pnl built"

\* the row of a frame with the given name
Line(frame, item) == frame[CHOOSE i \in DOMAIN frame : frame[i].item = item]

\* C18: when sale_price is 0 the three margin metrics (EBITDA Margin, EBIT
\* Margin, Cash COGS % of Revenue) are 0 in both columns and nothing fails;
\* when sale_price > 0 they are ebitda / sale_price, ebit / sale_price (of
\* each column) and cash_cogs / sale_price.
C18_MarginGuard ==
    PnlBuilt =>
        LET ebitda == Line(res.df, "EBITDA")
            ebit == Line(res.df, "EBIT (Operating Profit)")
            cogs == Line(res.df, "Total COGS (Cash)")
            m1 == Line(res.df_m, "EBITDA Margin")
            m2 == Line(res.df_m, "EBIT Margin")
            m3 == Line(res.df_m, "Cash COGS % of Revenue")
        IN  /\ Len(res.df_m) = 3
            /\ RIsZero(p.sale_price) =>
                  \A m \in {m1, m2, m3} : RIsZero(m.cash) /\ RIsZero(m.accounting)
            /\ RLt(Zero, p.sale_price) =>
                  /\ REq(m1.cash, RDiv(ebitda.cash, p.sale_price))
                  /\ REq(m1.accounting, RDiv(ebitda.accounting, p.sale_price))
                  /\ REq(m2.cash, RDiv(ebit.cash, p.sale_price))
                  /\ REq(m2.accounting, RDiv(ebit.accounting, p.sale_price))
                  /\ REq(m3.cash, RDiv(cogs.cash, p.sale_price))
                  /\ REq(m3.accounting, RDiv(cogs.accounting, p.sale_price))

C18_Witness ==
    /\ PnlBuilt
    /\ RIsZero(p.sale_price)
    /\ RLt(Zero, Line(res.df, "Total COGS (Cash)").cash)
    /\ RIsZero(Line(res.df_m, "Cash COGS % of Revenue").cash)

\* C19: Gross Profit = sale price - cash COGS total and EBITDA = Gross Profit
\* - overhead in both columns; the Cash column's depreciation line is 0 and
\* its EBIT is EBITDA; the Accounting column's EBIT is EBITDA minus the
\* result's machine_cost, so Accounting EBIT = Cash EBIT - depreciation.
C19_PnlStructure ==
    PnlBuilt =>
        LET cogs == Line(res.df, "Total COGS (Cash)")
            gross == Line(res.df, "Gross Profit")
            ebitda == Line(res.df, "EBITDA")
            dep == Line(res.df, "Depreciation/Amortization (Printer)")
            ebit == Line(res.df, "EBIT (Operating Profit)")
            machine == IF Has(p.res, "machine_cost") THEN p.res["machine_cost"] ELSE Zero
        IN  /\ Has(p.res, "cash_cogs_total") =>
                  /\ REq(cogs.cash, p.res["cash_cogs_total"])
                  /\ REq(cogs.accounting, p.res["cash_cogs_total"])
            /\ REq(gross.cash, RSub(p.sale_price, cogs.cash))
            /\ REq(gross.accounting, RSub(p.sale_price, cogs.accounting))
            /\ REq(ebitda.cash, RSub(gross.cash, p.sga_per_home))
            /\ REq(ebitda.accounting, RSub(gross.accounting, p.sga_per_home))
            /\ RIsZero(dep.cash)
            /\ REq(dep.accounting, machine)
            /\ REq(ebit.cash, ebitda.cash)
            /\ REq(ebit.accounting, RSub(ebitda.accounting, machine))
            /\ REq(ebit.accounting, RSub(ebit.cash, dep.accounting))

C19_Witness ==
    /\ PnlBuilt
    /\ Has(p.res, "machine_cost") /\ RLt(Zero, p.res["machine_cost"])
    /\ RLt(Zero, p.sga_per_home)
    /\ RLt(Line(res.df, "EBIT (Operating Profit)").accounting,
           Line(res.df, "EBIT (Operating Profit)").cash)
    /\ RLt(Line(res.df, "EBITDA").cash, Line(res.df, "Gross Profit").cash)

\* ---------------------------------------------------------------------
\* Properties of calc_monthly_payment, checked under SpecPayment
\* ---------------------------------------------------------------------
Paid == pc = "paid"

\* C12: calc_monthly_payment(P, 0.0, n) is P / n exactly for every P >= 0 and
\* n >= 1, and calc_monthly_payment(0, r, n) is 0 for every r >= 0 and n >= 1.
C12_ZeroRateAndZeroPrincipal ==
    (Paid /\ p.months >= 1) =>
        /\ (RIsZero(p.annual_rate) /\ RLe(Zero, p.principal))
              => REq(res, RDiv(p.principal, RInt(p.months)))
        /\ (RIsZero(p.principal) /\ RLe(Zero, p.annual_rate)) => RIsZero(res)

\* the payment formula for a rate r > 0 per month, in exact arithmetic
Annuity(principal, r, months) ==
    RDiv(RMul(principal, r),
         RSub(RInt(1), RDiv(RInt(1), RPow(RAdd(RInt(1), r), months))))

\* C13: for every principal, annual rate and term the call returns a payment
\* >= 0 without error: a negative principal counts as 0, a term below 1 as 1
\* month, a rate <= 0 gives principal / months, and a rate > 0 gives
\* principal * r / (1 - (1 + r)^(-months)) with r = annual_rate / 12.
C13_PaymentTotal ==
    Paid =>
        LET principal == RMax(Zero, p.principal)
            months == IF p.months < 1 THEN 1 ELSE p.months
            r == RDiv(p.annual_rate, RInt(12))
        IN  /\ ~IsBad(res)
            /\ RLe(Zero, res)
            /\ REq(res, IF RLe(p.annual_rate, Zero)
                        THEN RDiv(principal, RInt(months))
                        ELSE Annuity(principal, r, months))

\* ---------------------------------------------------------------------
\* Properties of the session, checked under SpecToggle
\* ---------------------------------------------------------------------
RelTol == Rat(1, 1000000000)
WithinTol(v, v0) == RLe(RAbs(RSub(v, v0)), RMul(RelTol, RAbs(v0)))

\* C7: whatever the sequence of unit-system toggles (no widget edited), every
\* canonical base value equals the value it started from within 1e-9
\* relative tolerance.
C7_ToggleStable ==
    toggles > 0 => \A k \in BaseKeys : WithinTol(ss[k], base0[k])

\* ---------------------------------------------------------------------
\* Properties of catalog selection, checked under SpecCustom
\* ---------------------------------------------------------------------
\* the catalog value of a canonical base for the current selection
CatalogValue(s, k) ==
    CASE k = "base_layer_h_mm" -> printer_defaults(s).layer_height_mm
      [] k = "base_bead_w_mm" -> printer_defaults(s).bead_width_mm
      [] k = "base_mat_price_ton" -> mat_defaults(s).price_ton
      [] k = "base_density_lbs_ft3" -> mat_defaults(s).density_lbs_ft3

CatalogKeys ==
    {"base_layer_h_mm", "base_bead_w_mm", "base_mat_price_ton", "base_density_lbs_ft3"}

\* the user has set the base to something else than the catalog value
Customized(s, k) == ~REq(s[k], CatalogValue(s, k))

SelectionChanged ==
    \/ ss'["ui_selected_printer"] # ss["ui_selected_printer"]
    \/ ss'["ui_selected_material"] # ss["ui_selected_material"]

\* C20: if the user has edited layer height, bead width, material price or
\* density, a later change of the selected printer or material leaves the
\* edited canonical value unchanged.
C20_SelectionKeepsCustomized ==
    [][(pc = "done" /\ SelectionChanged) =>
          \A k \in CatalogKeys : Customized(ss, k) => REq(ss'[k], ss[k])]_vars

\* the input record of the run carries the catalog values of the printer
\* now selected (resolution: unless the user had set it)
PrinterDefaultsFollow ==
    LET d == PRINTERS[ss'["ui_selected_printer"]]
    IN  /\ REq(p'.printer_price, d.price)
        /\ REq(p'.print_speed_mm_s, d.speed_mm_s)
        /\ REq(p'.efficiency, d.efficiency)
        /\ REq(p'.crew_size, d.crew_size)
        /\ REq(p'.setup_days, d.setup_days)
        /\ REq(p'.teardown_days, d.teardown_days)
        /\ ~Customized(ss, "base_layer_h_mm") => REq(p'.layer_h_mm, d.layer_height_mm)
        /\ ~Customized(ss, "base_bead_w_mm") => REq(p'.bead_w_mm, d.bead_width_mm)

MaterialDefaultsFollow ==
    LET d == MATERIALS[ss'["ui_selected_material"]]
    IN  /\ REq(p'.waste_pct, d.waste_pct)
        /\ ~Customized(ss, "base_mat_price_ton") => REq(p'.mat_price_ton, d.price_ton)
        /\ ~Customized(ss, "base_density_lbs_ft3")
              => REq(p'.final_density_lbs_ft3, d.density_lbs_ft3)

\* C21: on the run after the user selects another printer (material), the
\* scenario-A input record passed to the engine carries that entry's catalog
\* price, speed, efficiency, crew size, setup days, teardown days, layer
\* height and bead width (material price, density and waste fraction), for
\* the fields the user has not edited.
C21_DefaultsFollowSelection ==
    [][pc = "done" =>
          /\ ss'["ui_selected_printer"] # ss["ui_selected_printer"]
                => PrinterDefaultsFollow
          /\ ss'["ui_selected_material"] # ss["ui_selected_material"]
                => MaterialDefaultsFollow]_vars

\* ---------------------------------------------------------------------
\* Properties of the printer acquisition logic, checked under Spec
\* ---------------------------------------------------------------------
\* the result for the same input record with 'Cash (Own)' and 'Finance
\* (Own)' exchanged
OtherOwnedMode ==
    calculate_costs(
        [p EXCEPT !.printer_acquisition_type =
                      IF p.printer_acquisition_type = CashOwn THEN FinanceOwn
                      ELSE CashOwn],
        is_metric)

DebtServiceApplies ==
    /\ p.printer_acquisition_type = FinanceOwn
    /\ RLt(Zero, p.printer_monthly_payment)
    /\ RLt(p.printer_upfront_pct, RInt(1))

\* C22: in every result printer_debt_service_per_home is monthly payment *
\* project_months / num_homes when the mode is 'Finance (Own)', the payment
\* is > 0 and the upfront fraction is < 1, and 0 otherwise; and exchanging
\* 'Cash (Own)' and 'Finance (Own)' with all else equal leaves
\* cash_cogs_total, grand_total, machine_cost and cost_per_area unchanged.
C22_DebtServiceOutsideTotals ==
    Returned =>
        /\ REq(res.printer_debt_service_per_home,
               IF DebtServiceApplies
               THEN RDiv(RMul(p.printer_monthly_payment, RInt(res.project_months)),
                         p.num_homes)
               ELSE Zero)
        /\ p.printer_acquisition_type \in {CashOwn, FinanceOwn} =>
              /\ OtherOwnedMode.status = "returned"
              /\ \A f \in {"cash_cogs_total", "grand_total", "machine_cost",
                            "cost_per_area"} :
                    SameField(res, OtherOwnedMode, f)

C22_Witness ==
    /\ Returned
    /\ DebtServiceApplies
    /\ res.project_months > 1
    /\ RLt(Zero, res.printer_debt_service_per_home)
    /\ RIsZero(OtherOwnedMode.printer_debt_service_per_home)
    /\ REq(res.grand_total, OtherOwnedMode.grand_total)
    /\ RLt(res.cash_cogs_total, res.grand_total)

\* input records that differ from p only in the printer's purchase terms:
\* price, upfront fraction, residual fraction, depreciation years, annual
\* utilization (one changed at a time, and all changed together)
PurchaseVariants ==
    {[p EXCEPT !.printer_price = RInt(1000000)],
     [p EXCEPT !.printer_price = Zero],
     [p EXCEPT !.printer_upfront_pct = Zero],
     [p EXCEPT !.printer_upfront_pct = Rat(50, 100)],
     [p EXCEPT !.residual_value_pct = Zero],
     [p EXCEPT !.residual_value_pct = RInt(1)],
     [p EXCEPT !.depreciation_years = RInt(10)],
     [p EXCEPT !.depreciation_years = Zero],
     [p EXCEPT !.est_prints_per_year = RInt(24)],
     [p EXCEPT !.printer_price = RInt(250000),
               !.printer_upfront_pct = RInt(1),
               !.residual_value_pct = Rat(10, 100),
               !.depreciation_years = RInt(7),
               !.est_prints_per_year = RInt(6)]}

\* C23: in every result, whatever the acquisition mode, printer_upfront_cash
\* is printer_price * upfront fraction; and every input that differs from
\* the one given only in printer_price, upfront fraction, residual fraction,
\* depreciation years or annual utilization returns the same
\* cash_cogs_total.
C23_PurchaseOutsideCashCogs ==
    Returned =>
        /\ REq(res.printer_upfront_cash, RMul(p.printer_price, p.printer_upfront_pct))
        /\ \A q \in PurchaseVariants :
              LET other == calculate_costs(q, is_metric)
              IN  /\ other.status = "returned"
                  /\ REq(other.cash_cogs_total, res.cash_cogs_total)

\* ---------------------------------------------------------------------
\* Properties of the project duration, checked under SpecDuration
\* ---------------------------------------------------------------------
\* C24: in every result total_project_days = (setup_days + teardown_days) *
\* moves_count + print_days * num_homes with print_days = real print hours /
\* 8, days_per_home = total_project_days / num_homes, and project_months is
\* the least integer m >= 1 with total_project_days <= 30 * m (0 days and
\* exactly 30 days give 1 month, more than 30 days give 2 or more).
C24_ProjectDuration ==
    Returned =>
        LET print_days == RDiv(res.real_print_time_hr, RInt(SHIFT_HOURS))
            days == res.total_project_days
            months == res.project_months
        IN  /\ REq(days, RAdd(RMul(RAdd(p.setup_days, p.teardown_days), p.moves_count),
                              RMul(print_days, p.num_homes)))
            /\ REq(res.days_per_home, RDiv(days, p.num_homes))
            /\ months >= 1
            /\ RLe(days, RInt(30 * months))
            /\ months > 1 => RLt(RInt(30 * (months - 1)), days)

\* a project of exactly 30 days counts 1 month
C24_Witness ==
    /\ Returned
    /\ REq(res.total_project_days, RInt(30))
    /\ res.project_months = 1
    /\ RLt(res.days_per_home, res.total_project_days)

\* ---------------------------------------------------------------------
\* Properties of the upfront capital required, checked under Spec
\* ---------------------------------------------------------------------
\* upfront printer cash, one move's logistics, one move's setup and teardown
\* labor, one home's print labor and one home's material, from the input
\* record and the returned print time and material cost
CashBeforePayment ==
    LET site_days == RAdd(p.setup_days, p.teardown_days)
        crew_rate == RMul(p.crew_size, p.labor_rate)
        logistics_one_move == RMul(site_days, p.crane_rate)
        labor_one_move == RMul(RMul(site_days, RInt(SHIFT_HOURS)), crew_rate)
        print_labor_one_home == RMul(res.real_print_time_hr, crew_rate)
    IN  RAdd(RAdd(RAdd(RAdd(res.printer_upfront_cash, logistics_one_move),
                       labor_one_move),
                  print_labor_one_home),
             res.mat_cost)

PaymentOutstanding ==
    RLt(p.printer_upfront_pct, RInt(1)) /\ RLt(Zero, p.printer_monthly_payment)

\* C25 as stated: cash_required = upfront printer cash + one move's
\* logistics + one move's setup/teardown labor + one home's print labor + one
\* home's material + the first payment, the payment being counted only for a
\* financed acquisition ('Finance (Own)', payment > 0, upfront fraction < 1).
C25_CashRequiredFinancedOnly ==
    Returned =>
        REq(res.cash_required,
            RAdd(CashBeforePayment,
                 IF DebtServiceApplies THEN p.printer_monthly_payment ELSE Zero))

\* C25 amended: the same sum, the first payment being counted whenever the
\* payment is > 0 and the upfront fraction is < 1, whatever the mode.
C25_CashRequired ==
    Returned =>
        REq(res.cash_required,
            RAdd(CashBeforePayment,
                 IF PaymentOutstanding THEN p.printer_monthly_payment ELSE Zero))

C25_Witness ==
    /\ Returned
    /\ p.printer_acquisition_type = LeaseRent
    /\ PaymentOutstanding
    /\ RLt(RInt(1), p.num_homes)
    /\ RLt(Zero, p.setup_days)
    /\ RLt(RAdd(CashBeforePayment, Zero), res.cash_required)

\* the result for the same input record with acquisition mode t
ResultInMode(t) ==
    calculate_costs([p EXCEPT !.printer_acquisition_type = t], is_metric)

\* what cash_required holds beyond the upfront cash, the site costs of one
\* move and the labor and material of one home
FirstPaymentCounted(r) == RSub(r.cash_required, CashBeforePayment)

\* C27: in every acquisition mode ('Cash (Own)' and 'Lease/Rent (Expense)'
\* too) cash_required includes the monthly payment when the upfront fraction
\* is < 1 and the payment is > 0, and includes no payment when the upfront
\* fraction is 1 or the payment is not positive (for the given record and for
\* the records that differ from it in the mode only, where they return).
C27_FirstPaymentInEveryMode ==
    Returned =>
        /\ ResultInMode(p.printer_acquisition_type) = res
        /\ \A t \in AcquisitionTypes :
              ResultInMode(t).status = "returned" =>
                  /\ PaymentOutstanding =>
                        REq(FirstPaymentCounted(ResultInMode(t)),
                            p.printer_monthly_payment)
                  /\ (REq(p.printer_upfront_pct, RInt(1))
                         \/ RLe(p.printer_monthly_payment, Zero))
                        => RIsZero(FirstPaymentCounted(ResultInMode(t)))

C27_Witness ==
    /\ Returned
    /\ p.printer_acquisition_type = CashOwn
    /\ PaymentOutstanding
    /\ RIsZero(res.printer_debt_service_per_home)
    /\ REq(FirstPaymentCounted(res), p.printer_monthly_payment)

\* ---------------------------------------------------------------------
\* Properties of the single-scenario tab, checked under SpecSingle
\* ---------------------------------------------------------------------
Shown == pc = "single shown" /\ res.status = "shown"

\* C28: in the P&L table built from the engine's result, in every
\* acquisition mode, the lines COGS Material + Labor + Logistics +
\* Integration sum to the line Total COGS (Cash), in both columns.
C28_CogsLinesReconcile ==
    Shown =>
        LET df == res.pnl.df
            material == Line(df, "COGS - Material")
            labor == Line(df, "COGS - Labor")
            logistics == Line(df, "COGS - Logistics")
            integration == Line(df, "COGS - Integration")
            total == Line(df, "Total COGS (Cash)")
        IN  /\ REq(RAdd(RAdd(RAdd(material.cash, labor.cash), logistics.cash),
                        integration.cash), total.cash)
            /\ REq(RAdd(RAdd(RAdd(material.accounting, labor.accounting),
                             logistics.accounting), integration.accounting),
                   total.accounting)

\* C29: for num_homes >= 1 the headline total_job_cash is (material + labor
\* + logistics + integration + lease expense + debt service per home) *
\* num_homes and equals the TOTAL row of the breakdown table, whose lease
\* and debt-service rows are present only when they are > 0.
C29_JobCashReconciles ==
    Shown =>
        LET r == res.res
            df == res.job.df_breakdown
            per_home == RAdd(RAdd(RAdd(RAdd(RAdd(r.mat_cost, r.labor_cost),
                                            r.logistics_cost), r.bos_cost),
                                  r.printer_lease_expense_per_home),
                             r.printer_debt_service_per_home)
        IN  /\ REq(res.job.total_job_cash, RMul(per_home, p.num_homes))
            /\ REq(Line(df, "TOTAL").project_total, res.job.total_job_cash)
            /\ df[Len(df)].item = "TOTAL"
            /\ (\E i \in DOMAIN df : df[i].item = "Printer Debt Service")
                  <=> RLt(Zero, r.printer_debt_service_per_home)
            /\ (\E i \in DOMAIN df : df[i].item = "Printer lease/rent (operating expense)")
                  <=> RLt(Zero, r.printer_lease_expense_per_home)

C29_Witness ==
    /\ Shown
    /\ RLt(RInt(1), p.num_homes)
    /\ RLt(Zero, res.res.printer_debt_service_per_home)
    /\ Len(res.job.df_breakdown) = 6
    /\ REq(Line(res.job.df_breakdown, "TOTAL").project_total, res.job.total_job_cash)

\* ---------------------------------------------------------------------
\* Properties of the scenario comparison, checked under SpecCompare
\* ---------------------------------------------------------------------
ComparisonBuilt == pc = "compared"

\* the fields of the input record that the choice of alternate k overrides
Overridden(k) ==
    (IF ss[PrinterKeys[k]] = Custom
     THEN {"printer_price", "print_speed_mm_s", "efficiency", "crew_size"}
     ELSE {"printer_price", "print_speed_mm_s", "efficiency", "crew_size",
           "setup_days", "teardown_days", "layer_h_mm", "bead_w_mm"})
    \cup {"mat_price_ton", "final_density_lbs_ft3", "waste_pct"}

\* C26: after the tab has built the alternates (1 to 3, any printer,
\* material or custom choice) inputs_a and the base result are what the base
\* call was given and returned; each alternate's input record differs from
\* inputs_a only in the fields its choices override; the engine was called
\* once for the base and once per alternate, on that alternate's record; and
\* the list holds num_alts + 1 entries with ids A, B, C, D in order and
\* distinct labels.
C26_ComparatorIsolation ==
    ComparisonBuilt =>
        LET n == ss["ui_num_alts"]
            ids == <<"A", "B", "C", "D">>
        IN  /\ calls[1] = Call(p, is_metric, res)
            /\ scenario_results[1].inputs = p
            /\ scenario_results[1].res = res
            /\ Len(scenario_results) = n + 1
            /\ Len(calls) = n + 1
            /\ \A i \in 1 .. n + 1 :
                  /\ scenario_results[i].id = ids[i]
                  /\ calls[i] = Call(scenario_results[i].inputs, is_metric,
                                     scenario_results[i].res)
            /\ \A i, j \in 1 .. n + 1 :
                  i # j => scenario_results[i].label # scenario_results[j].label
            /\ \A k \in 1 .. n :
                  /\ DOMAIN scenario_results[k + 1].inputs = DOMAIN p
                  /\ \A f \in DOMAIN p \ Overridden(k) :
                        scenario_results[k + 1].inputs[f] = p[f]

C26_Witness ==
    /\ ComparisonBuilt
    /\ Len(scenario_results) = 4
    /\ ss["p0"] = Custom
    /\ ss["p1"] = "SQ4D ARCS"
    /\ ss["p2"] = ss["p1"]
    /\ scenario_results[2].inputs # p
    /\ scenario_results[3].inputs.setup_days # p.setup_days
    /\ scenario_results[2].res # res

====
